---- MODULE Spec2Model ----
(***************************************************************************)
(* A model of the goxlsw language server core: text synchronisation and    *)
(* the file map, the request dispatcher with its worker goroutines, the    *)
(* diagnostics store of a compile result and the compile driver.           *)
(***************************************************************************)
EXTENDS Integers, Sequences, FiniteSets, TLC

VARIABLES
    files,      \* the project's file map: path -> file (content, version) or NoFile
    now,        \* the wall clock in milliseconds, as last read
    workers,    \* the goroutines started by run / didModifyFile, by slot
    ev,         \* the step just taken: who ran what, with which inputs and replies
    budget,     \* messages (or addDiagnostics calls) still to come
    cr,         \* a compileResult under construction (diagnostics store)
    cpc,        \* position of compileAt: "idle", "loop", "done"
    csnap,      \* the snapshot compileAt works on: path -> file or NoFile
    ctodo,      \* the .spx files compileAt has not visited yet
    cret,       \* what compileAt returned: "none", a result, or errNoMainSpxFile
    astFile     \* the syntax tree of a file (its root), or NoAST

vars == <<files, now, workers, ev, budget, cr, cpc, csnap, ctodo, cret, astFile>>

serverVars == <<files, now, workers, ev, budget>>
compileVars == <<cr, cpc, csnap, ctodo, cret, astFile>>

---------------------------------------------------------------------------
(* Bounds of the model.                                                    *)

MaxLen == 3          \* longest file content, in bytes
MaxClientVersion == 2 \* the client gives document versions 1..MaxClientVersion
MaxClock == 4        \* the wall clock runs from MaxClientVersion+1 to MaxClock
MaxWorkers == 2      \* goroutines alive at the same time
MaxMsgs == 2         \* messages handed to HandleMessage in one run
MaxPos == 4           \* token positions of the syntax trees: 1..MaxPos
MaxChildren == 3      \* children of a file root
MaxOverloads == 3     \* overloads an overloadable function expands to
MaxDiags == 2        \* addDiagnostics calls on one compile result
MaxCalls == 2        \* call expressions at the top of the main file
MaxWrappers == 1     \* constructs nested around the statement of an identifier
MaxEmbeds == 2       \* embedded fields of one struct
MaxStop == 2         \* the call of onMember that returns false

---------------------------------------------------------------------------
(* Bytes, runes and the position translator (util.go).                     *)

\* An absent map entry and a nil *Range, as values of the type of the present ones.
NoFile == [content |-> <<>>, version |-> -1]
NoPos == [line |-> -1, character |-> -1]
NoRange == [start |-> NoPos, end |-> NoPos]

Min(a, b) == IF a < b THEN a ELSE b

\* utf8.DecodeRuneInString at index i (1-based) of the byte sequence s, as
\* `for _, r := range s` decodes: an ill-formed sequence yields U+FFFD, width 1.
DecodeRune(s, i) ==
    LET b0 == s[i]
        n == Len(s)
        Cont(k) == i + k <= n /\ s[i + k] >= 128 /\ s[i + k] <= 191
        Bad == [r |-> 65533, w |-> 1]
    IN  IF b0 < 128 THEN [r |-> b0, w |-> 1]
        ELSE IF b0 >= 194 /\ b0 <= 223 THEN
            IF Cont(1)
            THEN [r |-> (b0 - 192) * 64 + (s[i + 1] - 128), w |-> 2]
            ELSE Bad
        ELSE IF b0 >= 224 /\ b0 <= 239 THEN
            IF Cont(1) /\ Cont(2)
               /\ (b0 = 224 => s[i + 1] >= 160)
               /\ (b0 = 237 => s[i + 1] <= 159)
            THEN [r |-> (b0 - 224) * 4096 + (s[i + 1] - 128) * 64
                        + (s[i + 2] - 128), w |-> 3]
            ELSE Bad
        ELSE IF b0 >= 240 /\ b0 <= 244 THEN
            IF Cont(1) /\ Cont(2) /\ Cont(3)
               /\ (b0 = 240 => s[i + 1] >= 144)
               /\ (b0 = 244 => s[i + 1] <= 143)
            THEN [r |-> (b0 - 240) * 262144 + (s[i + 1] - 128) * 4096
                        + (s[i + 2] - 128) * 64 + (s[i + 3] - 128), w |-> 4]
            ELSE Bad
        ELSE Bad

\* utf16.RuneLen
utf16RuneLen(r) ==
    IF r < 0 THEN -1
    ELSE IF r >= 55296 /\ r <= 57343 THEN -1
    ELSE IF r < 65536 THEN 1
    ELSE IF r <= 1114111 THEN 2
    ELSE -1

\* utf8.RuneLen
utf8RuneLen(r) ==
    IF r < 0 THEN -1
    ELSE IF r < 128 THEN 1
    ELSE IF r < 2048 THEN 2
    ELSE IF r >= 55296 /\ r <= 57343 THEN -1
    ELSE IF r < 65536 THEN 3
    ELSE IF r <= 1114111 THEN 4
    ELSE -1

RECURSIVE utf16Loop(_, _, _, _, _)
utf16Loop(s, i, utf16Units, utf8Bytes, target) ==
    IF i > Len(s) \/ utf16Units >= target
    THEN utf8Bytes
    ELSE LET d == DecodeRune(s, i)
         IN  utf16Loop(s, i + d.w, utf16Units + utf16RuneLen(d.r),
                       utf8Bytes + utf8RuneLen(d.r), target)

utf16OffsetToUTF8(s, utf16Offset) ==
    IF utf16Offset <= 0 THEN 0 ELSE utf16Loop(s, 1, 0, 0, utf16Offset)

\* The byte offsets at which the lines of content start.
RECURSIVE lineStartsFrom(_, _)
lineStartsFrom(content, i) ==
    IF i > Len(content) THEN <<>>
    ELSE (IF content[i] = 10 THEN <<i>> ELSE <<>>) \o lineStartsFrom(content, i + 1)

lineStarts(content) == <<0>> \o lineStartsFrom(content, 1)

\* positionOffset(content, position): byte offset of an LSP position.
positionOffset(content, position) ==
    IF Len(content) = 0 THEN 0
    ELSE
        LET ls == lineStarts(content)
            lineIndex == position.line
        IN  IF lineIndex >= Len(ls) THEN Len(content)
            ELSE
                LET lineOffset == ls[lineIndex + 1]
                    lineEndOffset ==
                        IF lineIndex + 1 < Len(ls)
                        THEN ls[lineIndex + 2] - 1
                        ELSE Len(content)
                IN  IF lineOffset >= Len(content) THEN Len(content)
                    ELSE
                        LET lineContent ==
                                SubSeq(content, lineOffset + 1,
                                       Min(lineEndOffset, Len(content)))
                        IN  lineOffset
                            + utf16OffsetToUTF8(lineContent, position.character)

---------------------------------------------------------------------------
(* Paths, document URIs and files.                                         *)

workspaceRootURI == "file:///"

\* The paths the model knows, with path.Ext and path.Base of each.
AllPaths == {"main.spx", "a.spx", "lib/main.spx", "b.txt"}

Ext(p) == IF p = "b.txt" THEN ".txt" ELSE ".spx"

Base(p) ==
    CASE p = "lib/main.spx" -> "main.spx"
      [] OTHER -> p

\* The paths of the server model's file map.
Paths == {"main.spx", "b.txt"}

\* A document URI is the root URI followed by a relative path.
toDocumentURI(path) == <<workspaceRootURI, path>>

ForeignURI == <<"untitled:", "main.spx">>

URIs == {toDocumentURI(p) : p \in Paths} \cup {ForeignURI}

\* fromDocumentURI: the relative path, or an error when the URI lacks the root prefix.
fromDocumentURI(uri) ==
    IF uri[1] # workspaceRootURI
    THEN [err |-> "no workspace root prefix", path |-> ""]
    ELSE [err |-> "nil", path |-> uri[2]]

MkFile(content, version) == [content |-> content, version |-> version]

EmptyFiles == [p \in Paths |-> NoFile]

\* Project.PutFile (gop package): overwrites only when the version is newer.
PutFile(fm, path, file) ==
    IF fm[path] = NoFile \/ file.version > fm[path].version
    THEN [fm EXCEPT ![path] = file]
    ELSE fm

\* ModifyFiles without its else branch: a path not yet stored is not added.
RECURSIVE ModifyFilesNoAdd(_, _)
ModifyFilesNoAdd(fm, changes) ==
    IF changes = <<>> THEN fm
    ELSE LET change == Head(changes)
             file == MkFile(change.content, change.version)
         IN  ModifyFilesNoAdd(
                 IF fm[change.path] # NoFile /\ change.version > fm[change.path].version
                 THEN PutFile(fm, change.path, file)
                 ELSE fm,
                 Tail(changes))

\* ModifyFiles without the comparison of versions: every change is put.
RECURSIVE ModifyFilesOverwrite(_, _)
ModifyFilesOverwrite(fm, changes) ==
    IF changes = <<>> THEN fm
    ELSE LET change == Head(changes)
         IN  ModifyFilesOverwrite(
                 [fm EXCEPT ![change.path] = MkFile(change.content, change.version)],
                 Tail(changes))

\* Server.ModifyFiles
RECURSIVE ModifyFiles(_, _)
ModifyFiles(fm, changes) ==
    IF changes = <<>> THEN fm
    ELSE LET change == Head(changes)
             file == MkFile(change.content, change.version)
         IN  ModifyFiles(
                 IF fm[change.path] # NoFile
                 THEN (IF change.version > fm[change.path].version
                       THEN PutFile(fm, change.path, file)
                       ELSE fm)
                 ELSE PutFile(fm, change.path, file),
                 Tail(changes))

\* Project.UpdateFiles (gop package): every file of the given map is put.
RECURSIVE UpdateFiles(_, _)
UpdateFiles(fm, newFiles) ==
    IF newFiles = <<>> THEN fm
    ELSE UpdateFiles(
             PutFile(fm, Head(newFiles).path,
                     MkFile(Head(newFiles).content, Head(newFiles).version)),
             Tail(newFiles))

\* vfs.ListSpxFiles: the paths of the file map with the .spx extension.
ListSpxFiles(fm) == {p \in DOMAIN fm : fm[p] # NoFile /\ Ext(p) = ".spx"}

---------------------------------------------------------------------------
(* changedText and applyIncrementalChanges (text_synchronization.go).      *)

Splice(content, start, end, text) ==
    SubSeq(content, 1, start) \o text \o SubSeq(content, end + 1, Len(content))

\* The result of a text computation: an error, a panic, or the new content.
TextErr(e) == [err |-> e, panic |-> FALSE, content |-> <<>>]
TextPanic == [err |-> "nil", panic |-> TRUE, content |-> <<>>]
TextOK(c) == [err |-> "nil", panic |-> FALSE, content |-> c]

\* The loop of applyIncrementalChanges. A slice bound beyond the content
\* (content[end:] with end > len(content)) panics.
RECURSIVE applyLoop(_, _)
applyLoop(content, changes) ==
    IF changes = <<>> THEN TextOK(content)
    ELSE LET change == Head(changes)
         IN  IF change.range = NoRange
             THEN TextErr("ErrInternal: unexpected nil range for change")
             ELSE LET start == positionOffset(content, change.range.start)
                      end == positionOffset(content, change.range.end)
                  IN  IF end < start
                      THEN TextErr("ErrInternal: invalid range for content change")
                      ELSE IF end > Len(content)
                      THEN TextPanic
                      ELSE applyLoop(Splice(content, start, end, change.text),
                                     Tail(changes))

applyIncrementalChanges(fm, path, changes) ==
    IF fm[path] = NoFile
    THEN TextErr("ErrInternal: file not found")
    ELSE applyLoop(fm[path].content, changes)

changedText(fm, path, changes) ==
    IF Len(changes) = 0
    THEN TextErr("ErrInternal: no content changes provided")
    ELSE IF Len(changes) = 1 /\ changes[1].range = NoRange
            /\ changes[1].rangeLength = 0
    THEN TextOK(changes[1].text)
    ELSE applyIncrementalChanges(fm, path, changes)

---------------------------------------------------------------------------
(* The server: state, messages and goroutines.                             *)

Slots == 1..MaxWorkers

Idle == [kind |-> "idle", paths |-> <<>>, pos |-> 0, id |-> 0, handler |-> "",
         uri |-> <<"", "">>, stage |-> "", spx |-> {}, dirty |-> {}]

\* The goroutine of didModifyFile: publishes diagnostics of paths, one by one.
\* Its id and handler are the number and the method of the message that started it.
DiagWorker(paths) == [Idle EXCEPT !.kind = "diag", !.paths = paths]

\* The goroutine of run: runs the handler of call id and replies.
CallWorker(id, handler, uri) ==
    [Idle EXCEPT !.kind = "call", !.id = id, !.handler = handler, !.uri = uri,
                 !.stage = "start"]

NoMsgs == <<>>

Response(id, body, error, ok) ==
    [kind |-> "response", id |-> id, uri |-> <<"", "">>, body |-> body,
     error |-> error, ok |-> ok]

Notification(uri, body, ok) ==
    [kind |-> "textDocument/publishDiagnostics", id |-> 0, uri |-> uri,
     body |-> body, error |-> "nil", ok |-> ok]

\* The record of a step. thread is "dispatcher" (the caller of HandleMessage),
\* "worker" (the goroutine of slot) or "init".
NoEv == [op |-> "init", thread |-> "init", slot |-> 0, id |-> 0, method |-> "",
         decodes |-> TRUE, err |-> "nil", panic |-> FALSE, spawned |-> 0,
         msgs |-> NoMsgs, changes |-> <<>>, edits |-> <<>>, paths |-> <<>>,
         index |-> 0, observed |-> NoFile, stale |-> FALSE,
         uri |-> <<"", "">>, diags |-> <<>>, file |-> "",
         outcome |-> [err |-> "nil", msgs |-> <<>>, ast |-> "nil", pkg |-> "",
                      posValid |-> FALSE],
         errs |-> <<>>, position |-> [line |-> 0, character |-> 0],
         offset |-> 0, translated |-> [line |-> 0, character |-> 0],
         start |-> 0, end |-> 0, path |-> <<>>, exact |-> FALSE,
         firstStart |-> 0, firstEnd |-> 0, firstPath |-> <<>>,
         firstRefs |-> <<>>, defs |-> <<>>, pos |-> 0,
         node |-> [kind |-> "nil", pos |-> 0],
         filename |-> [panic |-> FALSE, value |-> ""],
         tokenFile |-> [panic |-> FALSE, value |-> ""],
         fileAST |-> [panic |-> FALSE, value |-> ""],
         calls |-> <<>>, rootDir |-> <<>>, expr |-> <<>>, declaredType |-> "",
         resource |-> <<>>, highlights |-> <<>>, members |-> <<>>,
         visits |-> <<>>, returns |-> <<>>, types |-> <<>>]

HasFreeSlot == \E i \in Slots : workers[i].kind = "idle"

FreeSlot == CHOOSE i \in Slots :
                /\ workers[i].kind = "idle"
                /\ \A j \in Slots : workers[j].kind = "idle" => i <= j

\* Every pass that already holds its project sees the paths written since.
MarkDirty(ws, fm, fm2) ==
    [i \in Slots |->
        IF ws[i].kind = "idle" THEN ws[i]
        ELSE [ws[i] EXCEPT !.dirty = @ \cup {p \in Paths : fm[p] # fm2[p]}]]

\* publishDiagnostics handing its notification to ReplyMessage twice.
publishDiagnosticsTwice(uri, body, built, ok) ==
    [err |-> IF ok THEN "nil" ELSE "ReplyMessage failed",
     msgs |-> <<Notification(uri, body, ok), Notification(uri, body, ok)>>]

\* jsonrpc2.NewNotification + replier.ReplyMessage in publishDiagnostics.
publishDiagnostics(uri, body, built, ok) ==
    IF ~built
    THEN [err |-> "failed to create diagnostic notification", msgs |-> NoMsgs]
    ELSE [err |-> IF ok THEN "nil" ELSE "ReplyMessage failed",
          msgs |-> <<Notification(uri, body, ok)>>]

\* replyError: an error response handed to ReplyMessage.
replyError(id, err, ok) ==
    [err |-> IF ok THEN "nil" ELSE "ReplyMessage failed",
     msgs |-> <<Response(id, "none", err, ok)>>]

replyMethodNotFound(id, ok) == replyError(id, "ErrMethodNotFound", ok)

replyParseError(id, ok) == replyError(id, "ErrParse", ok)

\* The call methods handleCall decodes params for and runs with runWithResponse.
FeatureMethods ==
    {"textDocument/hover", "textDocument/completion", "textDocument/signatureHelp",
     "textDocument/declaration", "textDocument/definition",
     "textDocument/typeDefinition", "textDocument/implementation",
     "textDocument/references", "textDocument/documentHighlight",
     "textDocument/documentLink", "textDocument/diagnostic", "workspace/diagnostic",
     "textDocument/formatting", "textDocument/prepareRename", "textDocument/rename",
     "textDocument/semanticTokens/full", "textDocument/inlayHint",
     "workspace/executeCommand"}

SupportedCallMethods == {"initialize", "shutdown"} \cup FeatureMethods

\* handleCall running the handler on params it could not decode.
handleCallNoParseCheck(id, method, decodes, ok) ==
    CASE method = "initialize" ->
            [spawn |-> "", reply |-> [err |-> "TODO", msgs |-> NoMsgs]]
      [] method = "shutdown" ->
            [spawn |-> "shutdown", reply |-> [err |-> "nil", msgs |-> NoMsgs]]
      [] method \in FeatureMethods ->
            [spawn |-> "feature", reply |-> [err |-> "nil", msgs |-> NoMsgs]]
      [] OTHER ->
            [spawn |-> "", reply |-> replyMethodNotFound(id, ok)]

\* What handleCall does with a call: reply on the spot, start a worker, or return.
\* decodes is the outcome of UnmarshalJSON on the params where the method decodes.
handleCall(id, method, decodes, ok) ==
    CASE method = "initialize" ->
            IF ~decodes
            THEN [spawn |-> "", reply |-> replyParseError(id, ok)]
            ELSE [spawn |-> "", reply |-> [err |-> "TODO", msgs |-> NoMsgs]]
      [] method = "shutdown" ->
            [spawn |-> "shutdown", reply |-> [err |-> "nil", msgs |-> NoMsgs]]
      [] method \in FeatureMethods ->
            IF ~decodes
            THEN [spawn |-> "", reply |-> replyParseError(id, ok)]
            ELSE [spawn |-> "feature", reply |-> [err |-> "nil", msgs |-> NoMsgs]]
      [] OTHER ->
            [spawn |-> "", reply |-> replyMethodNotFound(id, ok)]

---------------------------------------------------------------------------
(* The dispatcher: HandleMessage runs these on the caller's thread.        *)

DispatchGuard == budget > 0

FileChange(path, content, version) ==
    [path |-> path, content |-> content, version |-> version]

ChangePaths(changes) == [k \in 1..Len(changes) |-> changes[k].path]

\* A handler that returns without touching the file map or starting a goroutine.
ReturnOnly(op, method, decodes, err, msgs) ==
    /\ ev' = [NoEv EXCEPT !.op = op, !.thread = "dispatcher", !.method = method,
                          !.decodes = decodes, !.err = err, !.msgs = msgs,
                          !.id = MaxMsgs - budget + 1]
    /\ budget' = budget - 1
    /\ UNCHANGED <<files, now, workers, compileVars>>

\* Server.didModifyFile: ModifyFiles, getProj, then the diagnostics goroutine.
didModifyFileAt(op, changes, edits, t) ==
    /\ HasFreeSlot
    /\ LET fm2 == ModifyFiles(files, changes)
       IN  /\ files' = fm2
           /\ workers' = [MarkDirty(workers, files, fm2) EXCEPT
                             ![FreeSlot] =
                                 [DiagWorker(ChangePaths(changes)) EXCEPT
                                     !.id = MaxMsgs - budget + 1,
                                     !.handler = op]]
    /\ ev' = [NoEv EXCEPT !.op = op, !.thread = "dispatcher", !.method = op,
                          !.spawned = FreeSlot, !.changes = changes,
                          !.edits = edits, !.id = MaxMsgs - budget + 1]
    /\ budget' = budget - 1
    /\ now' = t
    /\ UNCHANGED compileVars

didModifyFile(op, changes, edits) == didModifyFileAt(op, changes, edits, now)

\* A panic on the dispatcher's thread: it unwinds to the caller of HandleMessage.
Panics(op, edits) ==
    /\ ev' = [NoEv EXCEPT !.op = op, !.thread = "dispatcher", !.method = op,
                          !.panic = TRUE, !.edits = edits,
                          !.id = MaxMsgs - budget + 1]
    /\ budget' = budget - 1
    /\ UNCHANGED <<files, now, workers, compileVars>>

\* didChange returning the error of changedText.
ReturnChangeError(err, edits) ==
    /\ ev' = [NoEv EXCEPT !.op = "textDocument/didChange", !.thread = "dispatcher",
                          !.method = "textDocument/didChange", !.err = err,
                          !.edits = edits, !.id = MaxMsgs - budget + 1]
    /\ budget' = budget - 1
    /\ UNCHANGED <<files, now, workers, compileVars>>

DidOpen(uri, text, version) ==
    /\ DispatchGuard
    /\ LET r == fromDocumentURI(uri)
       IN  IF r.err # "nil"
           THEN ReturnOnly("textDocument/didOpen", "textDocument/didOpen", TRUE,
                           r.err, NoMsgs)
           ELSE didModifyFile("textDocument/didOpen",
                              <<FileChange(r.path, text, version)>>, <<>>)

DidChange(uri, edits, version) ==
    /\ DispatchGuard
    /\ LET r == fromDocumentURI(uri)
           t == changedText(files, r.path, edits)
       IN  IF r.err # "nil"
           THEN ReturnOnly("textDocument/didChange", "textDocument/didChange",
                           TRUE, r.err, NoMsgs)
           ELSE IF t.panic
           THEN Panics("textDocument/didChange", edits)
           ELSE IF t.err # "nil"
           THEN ReturnChangeError(t.err, edits)
           ELSE /\ Len(t.content) <= MaxLen
                /\ didModifyFile("textDocument/didChange",
                                 <<FileChange(r.path, t.content, version)>>, edits)

\* time.Now().UnixMilli() returns t, not before the last reading of the clock.
DidSave(uri, hasText, text, t) ==
    /\ DispatchGuard
    /\ t >= now /\ t <= MaxClock
    /\ IF ~hasText
       THEN ReturnOnly("textDocument/didSave", "textDocument/didSave", TRUE,
                       "nil", NoMsgs)
       ELSE LET r == fromDocumentURI(uri)
            IN  IF r.err # "nil"
                THEN ReturnOnly("textDocument/didSave", "textDocument/didSave",
                                TRUE, r.err, NoMsgs)
                ELSE didModifyFileAt("textDocument/didSave",
                                     <<FileChange(r.path, text, t)>>, <<>>, t)

\* Server.didClose: publishDiagnostics(uri, nil) and nothing else.
DidClose(uri, built, ok) ==
    /\ DispatchGuard
    /\ LET r == publishDiagnostics(uri, "no diagnostics", built, ok)
       IN  ev' = [NoEv EXCEPT !.op = "textDocument/didClose",
                              !.thread = "dispatcher",
                              !.method = "textDocument/didClose",
                              !.decodes = TRUE, !.err = r.err, !.msgs = r.msgs,
                              !.uri = uri, !.id = MaxMsgs - budget + 1]
    /\ budget' = budget - 1
    /\ UNCHANGED <<files, now, workers, compileVars>>

\* didModifyFile on a batch of changes (didOpen, didChange and didSave pass one).
DidModifyFileBatch(changes) ==
    /\ DispatchGuard
    /\ didModifyFile("didModifyFile", changes, <<>>)

DecodedNotifications ==
    {"initialized", "textDocument/didOpen", "textDocument/didChange",
     "textDocument/didSave", "textDocument/didClose"}

\* handleNotification when UnmarshalJSON fails on the params.
NotifyUndecodable(method) ==
    /\ DispatchGuard
    /\ method \in DecodedNotifications
    /\ ReturnOnly("handleNotification", method, FALSE, "failed to parse params",
                  NoMsgs)

\* handleNotification for initialized, exit and any other method.
NotifyOther(method) ==
    /\ DispatchGuard
    /\ method \notin (DecodedNotifications \ {"initialized"})
    /\ ReturnOnly("handleNotification", method, TRUE,
                  IF method = "initialized" THEN "TODO" ELSE "nil", NoMsgs)

\* Server.handleCall for call id = the number of the message.
HandleCall(method, decodes, uri, ok) ==
    /\ DispatchGuard
    /\ LET id == MaxMsgs - budget + 1
           r == handleCall(id, method, decodes, ok)
       IN  IF r.spawn = ""
           THEN ReturnOnly("handleCall", method, decodes, r.reply.err, r.reply.msgs)
           ELSE /\ HasFreeSlot
                /\ workers' = [workers EXCEPT
                                  ![FreeSlot] = CallWorker(id, r.spawn, uri)]
                /\ ev' = [NoEv EXCEPT !.op = "handleCall", !.thread = "dispatcher",
                                      !.method = method, !.decodes = decodes,
                                      !.id = id, !.spawned = FreeSlot]
                /\ budget' = budget - 1
                /\ UNCHANGED <<files, now, compileVars>>

---------------------------------------------------------------------------
(* The goroutines.                                                         *)

\* Server.diagnose (diagnostics of one path of the project held by the worker):
\* it reads the file as the project holds it when diagnose runs.
diagnose(fm, path) == fm[path]

\* The loop leaving at the first failed publication (break for continue).
DiagStepBreak(i, built, ok) ==
    /\ workers[i].kind = "diag"
    /\ LET w == workers[i]
           path == w.paths[w.pos + 1]
           r == publishDiagnostics(toDocumentURI(path), "diagnostics", built, ok)
       IN  /\ ev' = [NoEv EXCEPT !.op = "publishDiagnostics", !.thread = "worker",
                                 !.slot = i, !.id = w.id, !.method = w.handler,
                                 !.err = r.err,
                                 !.msgs = r.msgs,
                                 !.paths = w.paths, !.index = w.pos + 1,
                                 !.observed = diagnose(files, path),
                                 !.stale = path \in w.dirty]
           /\ workers' = [workers EXCEPT ![i] =
                             IF w.pos + 1 = Len(w.paths) \/ r.err # "nil" THEN Idle
                             ELSE [w EXCEPT !.pos = w.pos + 1]]
    /\ UNCHANGED <<files, now, budget, compileVars>>

\* The goroutines serialised: one publishes only when no goroutine started by an
\* earlier message is still at work.
DiagStepInOrder(i, built, ok) ==
    /\ workers[i].kind = "diag"
    /\ \A j \in Slots : workers[j].kind = "diag" => workers[j].id >= workers[i].id
    /\ LET w == workers[i]
           path == w.paths[w.pos + 1]
           r == publishDiagnostics(toDocumentURI(path), "diagnostics", built, ok)
       IN  /\ ev' = [NoEv EXCEPT !.op = "publishDiagnostics", !.thread = "worker",
                                 !.slot = i, !.id = w.id, !.method = w.handler,
                                 !.err = r.err,
                                 !.msgs = r.msgs,
                                 !.paths = w.paths, !.index = w.pos + 1,
                                 !.observed = diagnose(files, path),
                                 !.stale = path \in w.dirty]
           /\ workers' = [workers EXCEPT ![i] =
                             IF w.pos + 1 = Len(w.paths) THEN Idle
                             ELSE [w EXCEPT !.pos = w.pos + 1]]
    /\ UNCHANGED <<files, now, budget, compileVars>>

\* One round of the loop of didModifyFile's goroutine: diagnose, then publish.
\* A failed publication is skipped (continue).
DiagStep(i, built, ok) ==
    /\ workers[i].kind = "diag"
    /\ LET w == workers[i]
           path == w.paths[w.pos + 1]
           r == publishDiagnostics(toDocumentURI(path), "diagnostics", built, ok)
       IN  /\ ev' = [NoEv EXCEPT !.op = "publishDiagnostics", !.thread = "worker",
                                 !.slot = i, !.id = w.id, !.method = w.handler,
                                 !.err = r.err,
                                 !.msgs = r.msgs,
                                 !.paths = w.paths, !.index = w.pos + 1,
                                 !.observed = diagnose(files, path),
                                 !.stale = path \in w.dirty]
           /\ workers' = [workers EXCEPT ![i] =
                             IF w.pos + 1 = Len(w.paths) THEN Idle
                             ELSE [w EXCEPT !.pos = w.pos + 1]]
    /\ UNCHANGED <<files, now, budget, compileVars>>

\* runWithResponse inside run: the response of the handler's outcome; when the
\* result cannot be marshalled or ReplyMessage fails, replyError sends another.
respond(id, out, marshalOK, ok1, ok2) ==
    LET first == IF out = "error"
                 THEN Response(id, "none", "handler error", ok1)
                 ELSE Response(id, out, "nil", ok1)
    IN  IF out = "result" /\ ~marshalOK
        THEN replyError(id, "marshal error", ok2).msgs
        ELSE IF ok1 THEN <<first>>
        ELSE <<first>> \o replyError(id, "ReplyMessage failed", ok2).msgs

\* The replies a goroutine may see from the client side.
ReplyOutcomes ==
    {[marshalOK |-> TRUE, ok1 |-> TRUE, ok2 |-> TRUE],
     [marshalOK |-> TRUE, ok1 |-> FALSE, ok2 |-> TRUE],
     [marshalOK |-> TRUE, ok1 |-> FALSE, ok2 |-> FALSE],
     [marshalOK |-> FALSE, ok1 |-> TRUE, ok2 |-> TRUE]}

\* How a publication may end: no notification built, sent, or refused.
PublishOutcomes ==
    {[built |-> FALSE, ok |-> FALSE], [built |-> TRUE, ok |-> TRUE],
     [built |-> TRUE, ok |-> FALSE]}

Finish(i, op, out, o, stale) ==
    /\ ev' = [NoEv EXCEPT !.op = op, !.thread = "worker", !.slot = i,
                          !.id = workers[i].id,
                          !.msgs = respond(workers[i].id, out, o.marshalOK,
                                           o.ok1, o.ok2),
                          !.stale = stale]
    /\ workers' = [workers EXCEPT ![i] = Idle]
    /\ UNCHANGED <<files, now, budget, compileVars>>

\* The shutdown handler: returns nil, nil.
ShutdownRun(i, o) ==
    /\ workers[i].kind = "call" /\ workers[i].handler = "shutdown"
    /\ o.marshalOK
    /\ Finish(i, "shutdown", "null", o, FALSE)

\* compileAndGetASTFileForDocumentURI fails before compile: a foreign URI or a
\* path without the .spx extension.
CompilableURI(uri) ==
    /\ fromDocumentURI(uri).err = "nil"
    /\ Ext(fromDocumentURI(uri).path) = ".spx"

CallReject(i, o) ==
    /\ workers[i].kind = "call" /\ workers[i].handler = "feature"
    /\ workers[i].stage = "start"
    /\ ~CompilableURI(workers[i].uri)
    /\ o.marshalOK
    /\ Finish(i, "handler", "error", o, FALSE)

\* Server.compile on the handler's goroutine: UpdateFiles with the host's file
\* map, then compileAt lists the .spx files of the project.
CompileBegin(i, hostMap) ==
    /\ workers[i].kind = "call" /\ workers[i].handler = "feature"
    /\ workers[i].stage = "start"
    /\ CompilableURI(workers[i].uri)
    /\ LET fm2 == UpdateFiles(files, hostMap)
       IN  /\ files' = fm2
           /\ workers' = [MarkDirty(workers, files, fm2) EXCEPT
                             ![i] = [workers[i] EXCEPT
                                        !.stage = "listed",
                                        !.spx = ListSpxFiles(fm2),
                                        !.dirty = {}]]
           /\ ev' = [NoEv EXCEPT !.op = "compile", !.thread = "worker",
                                 !.slot = i, !.id = workers[i].id]
    /\ UNCHANGED <<now, budget, compileVars>>

\* The rest of compileAt and of the handler: the files listed are parsed and
\* checked as the project holds them now, and the outcome is replied.
CallFinish(i, out, o) ==
    /\ workers[i].kind = "call" /\ workers[i].handler = "feature"
    /\ workers[i].stage = "listed"
    /\ workers[i].spx = {} => out = "error"
    /\ Finish(i, "handler", out, o, workers[i].spx \cap workers[i].dirty # {})

---------------------------------------------------------------------------
(* The server specification.                                               *)

Texts == {<<97>>, <<97, 10>>}

HostText == <<255>>

Versions == 1..MaxClientVersion

Pos(l, c) == [line |-> l, character |-> c]

Edit(range, rangeLength, text) ==
    [range |-> range, rangeLength |-> rangeLength, text |-> text]

Incr(l1, c1, l2, c2, text) ==
    Edit([start |-> Pos(l1, c1), end |-> Pos(l2, c2)], 0, text)

\* The change lists of didChange in the server specification.
SmallEdits ==
    {<<>>,
     <<Edit(NoRange, 0, <<97, 10>>)>>,
     <<Incr(0, 0, 0, 1, <<>>)>>}

\* The file maps fileMapGetter may return at time t.
HostMaps(t) == {<<>>, <<FileChange("main.spx", HostText, t)>>}

Batches ==
    {<<FileChange("main.spx", <<97>>, v), FileChange("b.txt", <<97>>, v)>> :
        v \in Versions}
    \cup {<<FileChange("b.txt", <<97>>, 2), FileChange("b.txt", <<97, 10>>, 1)>>}

CallInputs ==
    {[method |-> m, decodes |-> FALSE, uri |-> toDocumentURI("main.spx")] :
        m \in {"initialize", "textDocument/hover"}}
    \cup {[method |-> "textDocument/hover", decodes |-> TRUE, uri |-> u] :
            u \in URIs}
    \cup {[method |-> m, decodes |-> TRUE, uri |-> toDocumentURI("main.spx")] :
            m \in {"initialize", "shutdown", "textDocument/unknown"}}

NoAST == [pos |-> 0, end |-> 0, isToken |-> FALSE, children |-> <<>>,
          hasPkg |-> FALSE]

NoCompile ==
    /\ cr = [diagnostics |-> <<>>, seen |-> <<>>, hasError |-> FALSE,
             mainSpxFile |-> ""]
    /\ cpc = "idle"
    /\ csnap = <<>>
    /\ ctodo = {}
    /\ cret = "none"
    /\ astFile = NoAST

\* The URIs of the notifications that follow a didOpen.
MainURIs == {toDocumentURI("main.spx"), ForeignURI}

Init ==
    /\ files = EmptyFiles
    /\ now = MaxClientVersion + 1
    /\ workers = [i \in Slots |-> Idle]
    /\ ev = NoEv
    /\ budget = MaxMsgs
    /\ NoCompile

Next ==
    \/ \E t \in Texts, v \in Versions : DidOpen(toDocumentURI("main.spx"), t, v)
    \/ \E u \in URIs \ {toDocumentURI("main.spx")} : DidOpen(u, <<97>>, 1)
    \/ \E u \in MainURIs, e \in SmallEdits : DidChange(u, e, MaxClientVersion)
    \/ \E h \in BOOLEAN, t \in MaxClock - 1..MaxClock :
          DidSave(toDocumentURI("main.spx"), h, <<97>>, t)
    \/ \E u \in MainURIs, ok \in BOOLEAN : DidClose(u, TRUE, ok)
    \/ \E c \in Batches : DidModifyFileBatch(c)
    \/ NotifyUndecodable("textDocument/didChange")
    \/ \E m \in {"initialized", "exit"} : NotifyOther(m)
    \/ \E c \in CallInputs, ok \in BOOLEAN : HandleCall(c.method, c.decodes, c.uri, ok)
    \/ \E i \in Slots, p \in PublishOutcomes : DiagStep(i, p.built, p.ok)
    \/ \E i \in Slots, o \in ReplyOutcomes : ShutdownRun(i, o)
    \/ \E i \in Slots, o \in ReplyOutcomes : CallReject(i, o)
    \/ \E i \in Slots, h \in HostMaps(now) : CompileBegin(i, h)
    \/ \E i \in Slots, out \in {"result", "error"}, o \in ReplyOutcomes :
          CallFinish(i, out, o)

Spec == Init /\ [][Next]_vars

\* Text synchronisation alone: the notifications that end in didModifyFile and
\* its goroutines, which the scheduler runs whenever they can take a step.
NextSync ==
    \/ \E t \in Texts, v \in Versions : DidOpen(toDocumentURI("main.spx"), t, v)
    \/ DidOpen(toDocumentURI("b.txt"), <<97>>, 1)
    \/ \E e \in SmallEdits : DidChange(toDocumentURI("main.spx"), e, MaxClientVersion)
    \/ DidSave(toDocumentURI("main.spx"), TRUE, <<97>>, MaxClock)
    \/ \E c \in Batches : DidModifyFileBatch(c)
    \/ \E i \in Slots, p \in PublishOutcomes : DiagStep(i, p.built, p.ok)

FairSpec ==
    /\ Init
    /\ [][NextSync]_vars
    /\ \A i \in Slots : WF_vars(\E p \in PublishOutcomes : DiagStep(i, p.built, p.ok))

---------------------------------------------------------------------------
(* C1: a file change with a version not greater than the stored one leaves *)
(* the stored file as it is, one with a greater version replaces it, and a *)
(* change for a path not yet stored is stored; so the stored version of a  *)
(* path never decreases over ModifyFiles calls.                            *)

IsModifyStep == ev'.thread = "dispatcher" /\ ev'.changes # <<>>

C1_VersionMonotone ==
    [][IsModifyStep =>
        /\ \A p \in Paths :
              files[p] # NoFile =>
                  /\ files'[p] # NoFile
                  /\ files'[p].version >= files[p].version
        /\ Len(ev'.changes) = 1 =>
              LET c == ev'.changes[1]
                  old == files[c.path]
              IN  /\ old = NoFile => files'[c.path] = MkFile(c.content, c.version)
                  /\ (old # NoFile /\ c.version <= old.version) =>
                        files'[c.path] = old
                  /\ (old # NoFile /\ c.version > old.version) =>
                        files'[c.path] = MkFile(c.content, c.version)
                  /\ \A q \in Paths \ {c.path} : files'[q] = files[q]]_vars

\* A change older than the stored file has just been handled.
C1_Witness ==
    /\ ev.thread = "dispatcher"
    /\ Len(ev.changes) = 1
    /\ files[ev.changes[1].path] # NoFile
    /\ ev.changes[1].version < files[ev.changes[1].path].version
    /\ ev.changes[1].content # files[ev.changes[1].path].content

---------------------------------------------------------------------------
(* C2: every call of a supported method (initialize and shutdown included) *)
(* whose params decode is run on a worker of its own, which hands one      *)
(* response with the call's id to ReplyMessage.                            *)

C2_SupportedCallRunsOnWorker ==
    (/\ ev.op = "handleCall"
     /\ ev.method \in SupportedCallMethods
     /\ ev.decodes)
    => /\ ev.spawned # 0
       /\ workers[ev.spawned].kind = "call"
       /\ workers[ev.spawned].id = ev.id

---------------------------------------------------------------------------
(* C3: a call of an unsupported method is answered with a method-not-found *)
(* error response and a call whose params do not decode with a parse-error *)
(* response, both carrying the call's id, on the dispatcher's thread, with *)
(* no worker started and the file map unchanged.                           *)

IsErrorReply(msgs, id, code) ==
    /\ Len(msgs) = 1
    /\ msgs[1].kind = "response"
    /\ msgs[1].id = id
    /\ msgs[1].error = code
    /\ msgs[1].body = "none"

C3_ProtocolErrors ==
    [][(ev'.op = "handleCall") =>
        /\ ev'.method \notin SupportedCallMethods =>
              /\ IsErrorReply(ev'.msgs, ev'.id, "ErrMethodNotFound")
              /\ ev'.thread = "dispatcher"
              /\ ev'.spawned = 0
              /\ workers' = workers
              /\ files' = files
        /\ (ev'.method \in SupportedCallMethods /\ ~ev'.decodes) =>
              /\ IsErrorReply(ev'.msgs, ev'.id, "ErrParse")
              /\ ev'.thread = "dispatcher"
              /\ ev'.spawned = 0
              /\ workers' = workers
              /\ files' = files]_vars

\* A parse-error reply has just been sent for a call of a supported method.
C3_Witness ==
    /\ ev.op = "handleCall"
    /\ ev.method \in FeatureMethods
    /\ ~ev.decodes
    /\ IsErrorReply(ev.msgs, ev.id, "ErrParse")
    /\ \E p \in Paths : files[p] # NoFile

---------------------------------------------------------------------------
(* C5: when didModifyFile returns, every accepted change is in the file    *)
(* map; its goroutine then publishes the diagnostics of the changed paths  *)
(* one by one in the order of the change list, goes on to the next path    *)
(* when a publication fails, and ends after the last path.                 *)

\* Change k of the list was accepted when ModifyFiles reached it.
Accepted(fm, changes, k) ==
    LET before == ModifyFiles(fm, SubSeq(changes, 1, k - 1))[changes[k].path]
    IN  before = NoFile \/ changes[k].version > before.version

\* Change k is what the file map holds, unless a later accepted one replaced it.
Visible(fm, changes, k) ==
    \E j \in k..Len(changes) :
        /\ changes[j].path = changes[k].path
        /\ changes[j].version >= changes[k].version
        /\ fm[changes[k].path] = MkFile(changes[j].content, changes[j].version)

C5_ModifyStep ==
    IsModifyStep =>
        /\ \A k \in 1..Len(ev'.changes) :
              Accepted(files, ev'.changes, k) => Visible(files', ev'.changes, k)
        /\ ev'.spawned \in Slots
        /\ workers[ev'.spawned].kind = "idle"
        /\ workers'[ev'.spawned].kind = "diag"
        /\ workers'[ev'.spawned].paths = ChangePaths(ev'.changes)
        /\ workers'[ev'.spawned].pos = 0
        /\ ev'.msgs = <<>>

C5_PublishStep ==
    \A i \in Slots :
        (/\ workers[i].kind = "diag"
         /\ <<workers'[i].kind, workers'[i].paths, workers'[i].pos>>
               # <<workers[i].kind, workers[i].paths, workers[i].pos>>) =>
            /\ ev'.op = "publishDiagnostics"
            /\ ev'.slot = i
            /\ ev'.index = workers[i].pos + 1
            /\ ev'.index <= Len(workers[i].paths)
            /\ Len(ev'.msgs) <= 1
            /\ \A k \in 1..Len(ev'.msgs) :
                  /\ ev'.msgs[k].kind = "textDocument/publishDiagnostics"
                  /\ ev'.msgs[k].uri = toDocumentURI(workers[i].paths[ev'.index])
            /\ ev'.err = "nil" => Len(ev'.msgs) = 1
            /\ IF ev'.index = Len(workers[i].paths)
               THEN workers'[i].kind = "idle"
               ELSE /\ workers'[i].kind = "diag"
                    /\ workers'[i].paths = workers[i].paths
                    /\ workers'[i].pos = ev'.index

C5_DiagnosticsFollowChanges ==
    /\ [][C5_ModifyStep /\ C5_PublishStep]_vars
    /\ \A i \in Slots : []<>(workers[i].kind # "diag")

\* A publication has just failed and the goroutine is on to the next path.
C5_Witness ==
    /\ ev.op = "publishDiagnostics"
    /\ ev.err # "nil"
    /\ ev.index < Len(ev.paths)
    /\ workers[ev.slot].kind = "diag"
    /\ workers[ev.slot].pos = ev.index

---------------------------------------------------------------------------
(* C7: every mutation of the file map happens on the thread that calls     *)
(* HandleMessage; no goroutine started for a request or for diagnostics    *)
(* writes the file map.                                                    *)

C7_SingleWriter == [][files' # files => ev'.thread = "dispatcher"]_vars

---------------------------------------------------------------------------
(* C8: the files that one compile call or one diagnostics goroutine        *)
(* analyses are a snapshot: no file it reads was changed after it took the *)
(* project.                                                                *)

C8_SnapshotIsolation == ev.thread = "worker" => ~ev.stale

---------------------------------------------------------------------------
(* The compile result and addDiagnostics (compile.go).                     *)

SeverityError == 1

SeverityWarning == 2

Diagnostic(severity, range, message) ==
    [severity |-> severity, range |-> range, message |-> message]

\* The zero Range, of a diagnostic built without one.
ZeroRange == [start |-> Pos(0, 0), end |-> Pos(0, 0)]

\* fmt's %d of a natural number: its decimal digits.
RECURSIVE Digits(_)
Digits(n) ==
    IF n < 10 THEN <<48 + n>> ELSE Digits(n \div 10) \o <<48 + (n % 10)>>

\* fmt's %v of a Position {line character} and of a Range {start end}.
FormatPosition(p) ==
    <<123>> \o Digits(p.line) \o <<32>> \o Digits(p.character) \o <<125>>

FormatRange(r) ==
    <<123>> \o FormatPosition(r.start) \o <<32>> \o FormatPosition(r.end) \o <<125>>

\* The fingerprint with the range left out of the format.
FingerprintNoRange(diag) == Digits(diag.severity) \o <<10>> \o diag.message

\* fmt.Sprintf("%d\n%v\n%s", diag.Severity, diag.Range, diag.Message)
Fingerprint(diag) ==
    Digits(diag.severity) \o <<10>> \o FormatRange(diag.range) \o <<10>>
        \o diag.message

\* A Go map as a function on its keys.
MapPut(m, k, v) == [x \in DOMAIN m \cup {k} |-> IF x = k THEN v ELSE m[x]]

MapGet(m, k, zero) == IF k \in DOMAIN m THEN m[k] ELSE zero

newCompileResult ==
    [diagnostics |-> <<>>, seen |-> <<>>, hasError |-> FALSE, mainSpxFile |-> ""]

\* The loop with the flag set from the last diagnostic appended alone.
RECURSIVE addDiagnosticsLoopLast(_, _, _)
addDiagnosticsLoopLast(r, documentURI, diags) ==
    IF diags = <<>> THEN r
    ELSE LET diag == Head(diags)
             fingerprint == Fingerprint(diag)
         IN  IF fingerprint \in r.seen[documentURI]
             THEN addDiagnosticsLoopLast(r, documentURI, Tail(diags))
             ELSE addDiagnosticsLoopLast(
                      [r EXCEPT
                          !.seen = MapPut(@, documentURI,
                                          @[documentURI] \cup {fingerprint}),
                          !.diagnostics = MapPut(@, documentURI,
                                                 Append(@[documentURI], diag)),
                          !.hasError = diag.severity = SeverityError],
                      documentURI, Tail(diags))

\* The loop of addDiagnostics over diags.
RECURSIVE addDiagnosticsLoop(_, _, _)
addDiagnosticsLoop(r, documentURI, diags) ==
    IF diags = <<>> THEN r
    ELSE LET diag == Head(diags)
             fingerprint == Fingerprint(diag)
         IN  IF fingerprint \in r.seen[documentURI]
             THEN addDiagnosticsLoop(r, documentURI, Tail(diags))
             ELSE addDiagnosticsLoop(
                      [r EXCEPT
                          !.seen = MapPut(@, documentURI,
                                          @[documentURI] \cup {fingerprint}),
                          !.diagnostics = MapPut(@, documentURI,
                                                 Append(@[documentURI], diag)),
                          !.hasError = @ \/ diag.severity = SeverityError],
                      documentURI, Tail(diags))

\* compileResult.addDiagnostics: the seen set and the list of documentURI are
\* created when missing, then each diagnostic not seen before is appended.
addDiagnostics(r, documentURI, diags) ==
    addDiagnosticsLoop(
        [r EXCEPT !.seen = MapPut(@, documentURI, MapGet(@, documentURI, {})),
                  !.diagnostics = MapPut(@, documentURI,
                                         MapGet(@, documentURI, <<>>))],
        documentURI, diags)

---------------------------------------------------------------------------
(* The specification of addDiagnostics calls on one compile result.        *)

ServerAtRest ==
    /\ now = MaxClientVersion + 1
    /\ workers = [i \in Slots |-> Idle]
    /\ ev = NoEv

DiagURIs == {toDocumentURI("main.spx"), toDocumentURI("a.spx")}

DiagMessages == {<<120>>, <<10, 120>>}

DiagRanges == {ZeroRange, [start |-> Pos(0, 1), end |-> Pos(1, 0)]}

Diagnostics ==
    {Diagnostic(sev, rg, msg) :
        sev \in {SeverityError, SeverityWarning}, rg \in DiagRanges,
        msg \in DiagMessages}

\* The argument lists of a call: one diagnostic, the same twice, or two that
\* differ in the range only.
DiagLists ==
    {<<d>> : d \in Diagnostics} \cup {<<d, d>> : d \in Diagnostics}
    \cup {<<Diagnostic(SeverityWarning, rg, <<120>>) ,
            Diagnostic(SeverityWarning, ZeroRange, <<120>>)>> : rg \in DiagRanges}

AddDiagnostics(documentURI, diags) ==
    /\ budget > 0
    /\ cr' = addDiagnostics(cr, documentURI, diags)
    /\ ev' = [NoEv EXCEPT !.op = "addDiagnostics", !.uri = documentURI,
                          !.diags = diags, !.id = MaxDiags - budget + 1]
    /\ budget' = budget - 1
    /\ UNCHANGED <<astFile, files, now, workers, cpc, csnap, ctodo, cret>>

InitDiag ==
    /\ ServerAtRest
    /\ files = EmptyFiles
    /\ budget = MaxDiags
    /\ cr = newCompileResult
    /\ cpc = "idle" /\ csnap = <<>> /\ ctodo = {} /\ cret = "none"
    /\ astFile = NoAST

NextDiag == \E u \in DiagURIs, ds \in DiagLists : AddDiagnostics(u, ds)

SpecDiag == InitDiag /\ [][NextDiag]_vars

---------------------------------------------------------------------------
(* C4: in one compile result the diagnostics list of a document URI never  *)
(* holds the same (severity, range, message) twice: a call of              *)
(* addDiagnostics appends each triple that the URI's list does not hold    *)
(* yet, once, whatever the lists of the other URIs hold.                   *)

SeqRange(q) == {q[k] : k \in 1..Len(q)}

C4_NoDuplicates ==
    \A u \in DOMAIN cr.diagnostics :
        \A j, k \in 1..Len(cr.diagnostics[u]) :
            j # k => cr.diagnostics[u][j] # cr.diagnostics[u][k]

C4_AddStep ==
    ev'.op = "addDiagnostics" =>
        LET u == ev'.uri
            old == MapGet(cr.diagnostics, u, <<>>)
            new == cr'.diagnostics[u]
        IN  /\ SubSeq(new, 1, Len(old)) = old
            /\ SeqRange(new) = SeqRange(old) \cup SeqRange(ev'.diags)
            /\ Len(new) = Len(old) + Cardinality(SeqRange(ev'.diags) \ SeqRange(old))
            /\ \A v \in DOMAIN cr.diagnostics \ {u} :
                  cr'.diagnostics[v] = cr.diagnostics[v]

C4_DiagnosticDedup == [](C4_NoDuplicates) /\ [][C4_AddStep]_vars

\* The same triple was added twice under one URI, which holds it once, and
\* the other URI holds it too.
C4_Witness ==
    /\ ev.op = "addDiagnostics"
    /\ Len(ev.diags) = 2 /\ ev.diags[1] = ev.diags[2]
    /\ cr.diagnostics[ev.uri] = <<ev.diags[1]>>
    /\ \E v \in DOMAIN cr.diagnostics \ {ev.uri} :
          ev.diags[1] \in SeqRange(cr.diagnostics[v])

---------------------------------------------------------------------------
(* compile and compileAt (compile.go).                                     *)

errNoMainSpxFile == "no valid main.spx file found in main package"

\* What snapshot.AST(spxFile) gives for one file: the error (none, a scanner
\* error list with its messages, a code generation error, or another one), the
\* file (nil or not), its package name and whether its position is valid. The
\* loop of compileAt tests the position next to the error list and next to the
\* package name: a file without valid position comes with the name main (no
\* package clause, nothing else) or with no name (the parser gave up).
ParseOutcome(err, msgs, ast, pkg, posValid) ==
    [err |-> err, msgs |-> msgs, ast |-> ast, pkg |-> pkg, posValid |-> posValid]

ParseOutcomes ==
    {ParseOutcome("nil", <<>>, "file", pkg, TRUE) : pkg \in {"main", "foo"}}
    \cup {ParseOutcome("nil", <<>>, "file", "main", FALSE)}
    \cup {ParseOutcome("errorList", msgs, "file", pkg, TRUE) :
             msgs \in {<<<<120>>>>, <<<<120>>, <<120>>>>}, pkg \in {"main", "foo"}}
    \cup {ParseOutcome("errorList", <<<<120>>>>, "file", pkg, FALSE) :
             pkg \in {"main", ""}}
    \cup {ParseOutcome(e, <<>>, "nil", "", FALSE) : e \in {"codeError", "other"}}

\* The diagnostics of the error of snapshot.AST in the loop of compileAt.
parseDiagnostics(o) ==
    IF o.err = "nil" THEN <<>>
    ELSE IF o.err = "errorList" /\ o.posValid
    THEN [k \in 1..Len(o.msgs) |->
             Diagnostic(SeverityError, [start |-> Pos(0, 1), end |-> Pos(1, 0)],
                        o.msgs[k])]
    ELSE IF o.err = "codeError"
    THEN <<Diagnostic(SeverityError, [start |-> Pos(0, 1), end |-> Pos(1, 0)],
                      <<120>>)>>
    ELSE <<Diagnostic(SeverityError, ZeroRange, <<10, 120>>)>>

\* The diagnostic "package name must be main" at the package name.
PackageNameDiagnostic == Diagnostic(SeverityError, ZeroRange, <<109>>)

\* One round of the loop of compileAt, for spxFile with parse outcome o.
compileFile(r, spxFile, o) ==
    LET documentURI == toDocumentURI(spxFile)
        r1 == [r EXCEPT !.diagnostics = MapPut(@, documentURI, <<>>)]
        r2 == IF o.err = "nil" THEN r1
              ELSE addDiagnostics(r1, documentURI, parseDiagnostics(o))
    IN  IF o.ast = "nil" THEN r2
        ELSE IF o.pkg # "main" /\ o.posValid
        THEN addDiagnostics(r2, documentURI, <<PackageNameDiagnostic>>)
        ELSE IF Base(spxFile) = "main.spx"
        THEN [r2 EXCEPT !.mainSpxFile = spxFile]
        ELSE r2

\* The project has no .spx file and compileAt returns a result all the same.
CompileEmptyResult(hostMap) ==
    /\ cpc = "idle"
    /\ LET snapshot == UpdateFiles(files, hostMap)
           spxFiles == ListSpxFiles(snapshot)
       IN  /\ files' = snapshot
           /\ csnap' = snapshot
           /\ cr' = newCompileResult
           /\ ctodo' = spxFiles
           /\ cpc' = IF spxFiles = {} THEN "done" ELSE "loop"
           /\ cret' = IF spxFiles = {} THEN "result" ELSE "none"
    /\ ev' = [NoEv EXCEPT !.op = "compile"]
    /\ UNCHANGED <<astFile, now, workers, budget>>

\* Server.compile up to the loop of compileAt: UpdateFiles with the host's file
\* map, ListSpxFiles, and the return when no .spx file is listed.
Compile(hostMap) ==
    /\ cpc = "idle"
    /\ LET snapshot == UpdateFiles(files, hostMap)
           spxFiles == ListSpxFiles(snapshot)
       IN  /\ files' = snapshot
           /\ csnap' = snapshot
           /\ IF spxFiles = {}
              THEN /\ cret' = errNoMainSpxFile
                   /\ cpc' = "done"
                   /\ UNCHANGED <<cr, ctodo>>
              ELSE /\ cr' = newCompileResult
                   /\ ctodo' = spxFiles
                   /\ cpc' = "loop"
                   /\ cret' = "none"
    /\ ev' = [NoEv EXCEPT !.op = "compile"]
    /\ UNCHANGED <<astFile, now, workers, budget>>

\* One round of the loop for the next listed file.
CompileFile(spxFile, o) ==
    /\ cpc = "loop"
    /\ spxFile \in ctodo
    /\ cr' = compileFile(cr, spxFile, o)
    /\ ctodo' = ctodo \ {spxFile}
    /\ ev' = [NoEv EXCEPT !.op = "compileFile", !.file = spxFile, !.outcome = o]
    /\ UNCHANGED <<astFile, files, now, workers, budget, cpc, csnap, cret>>

\* An error of snapshot.TypeInfo(): a types.Error (with its position, valid or
\* not, the file of the position and its message) or an error of another type.
TypeError(isTypesError, posValid, filename, msg) ==
    [isTypesError |-> isTypesError, posValid |-> posValid,
     filename |-> filename, msg |-> msg]

\* handleErr over the errors of the type check, in order: a types.Error becomes
\* a diagnostic of the file of its position, and panics when it has no valid
\* position; an error of another type is passed over.
RECURSIVE handleErrs(_, _)
handleErrs(r, errs) ==
    IF errs = <<>> THEN [panic |-> FALSE, result |-> r]
    ELSE LET e == Head(errs)
         IN  IF ~e.isTypesError THEN handleErrs(r, Tail(errs))
             ELSE IF ~e.posValid THEN [panic |-> TRUE, result |-> r]
             ELSE handleErrs(
                      addDiagnostics(r, toDocumentURI(e.filename),
                          <<Diagnostic(SeverityError,
                                       [start |-> Pos(0, 1), end |-> Pos(1, 0)],
                                       e.msg)>>),
                      Tail(errs))

\* After the loop: without a main file, the error or the result as it is; with
\* one, the type check (handleErr on its errors) and the other passes.
CompileReturn(typeErrors) ==
    /\ cpc = "loop"
    /\ ctodo = {}
    /\ IF cr.mainSpxFile = ""
       THEN /\ cret' = IF Cardinality(DOMAIN cr.diagnostics) = 0
                       THEN errNoMainSpxFile ELSE "partial result"
            /\ cr' = cr
       ELSE LET h == handleErrs(cr, typeErrors)
            IN  /\ cret' = IF h.panic THEN "panic" ELSE "result"
                /\ cr' = h.result
    /\ cpc' = "done"
    /\ ev' = [NoEv EXCEPT !.op = "compileReturn", !.errs = typeErrors]
    /\ UNCHANGED <<astFile, files, now, workers, budget, csnap, ctodo>>

---------------------------------------------------------------------------
(* The specification of one compile call on a project.                     *)

InitProjects == [AllPaths -> {NoFile, MkFile(<<97>>, 1)}]

CompileHostMaps ==
    {<<>>, <<FileChange("b.txt", <<97, 10>>, MaxClientVersion)>>,
     <<FileChange("a.spx", <<97, 10>>, MaxClientVersion)>>}

TypeErrorLists ==
    {<<>>,
     <<TypeError(TRUE, TRUE, "main.spx", <<116>>)>>,
     <<TypeError(TRUE, TRUE, "a.spx", <<116>>),
       TypeError(TRUE, TRUE, "a.spx", <<116>>)>>,
     <<TypeError(TRUE, TRUE, "main.spx", <<116>>),
       TypeError(TRUE, FALSE, "", <<117>>)>>,
     <<TypeError(FALSE, FALSE, "", <<117>>)>>}

InitCompile ==
    /\ ServerAtRest
    /\ files \in InitProjects
    /\ budget = 0
    /\ cr = newCompileResult
    /\ cpc = "idle" /\ csnap = <<>> /\ ctodo = {} /\ cret = "none"
    /\ astFile = NoAST

NextCompile ==
    \/ \E h \in CompileHostMaps : Compile(h)
    \/ \E f \in AllPaths, o \in ParseOutcomes : CompileFile(f, o)
    \/ \E t \in TypeErrorLists : CompileReturn(t)

SpecCompile == InitCompile /\ [][NextCompile]_vars

\* compile has returned.
Returned == cpc = "done"

NoDiagnosticEmitted == \A u \in DOMAIN cr.diagnostics : cr.diagnostics[u] = <<>>

---------------------------------------------------------------------------
(* C9: compile on a project without any .spx file (no file at all, or only *)
(* other files) fails with the no-main-file error and returns no result.   *)

C9_NoSpxFile ==
    (Returned /\ ListSpxFiles(csnap) = {}) =>
        /\ cret = errNoMainSpxFile
        /\ cr = newCompileResult

\* compile has failed on a project that holds b.txt only.
C9_Witness ==
    /\ Returned
    /\ ListSpxFiles(csnap) = {}
    /\ csnap["b.txt"] # NoFile
    /\ cret = errNoMainSpxFile

---------------------------------------------------------------------------
(* C10: with at least one .spx file and no main file recorded, compile     *)
(* fails with the no-main-file error if no diagnostic was emitted for any  *)
(* file, and returns the partial result otherwise.                         *)

C10_NoMainFile ==
    (Returned /\ ListSpxFiles(csnap) # {} /\ cr.mainSpxFile = "") =>
        IF NoDiagnosticEmitted
        THEN cret = errNoMainSpxFile
        ELSE cret = "partial result"

---------------------------------------------------------------------------
(* The specification of one didChange on a stored (or missing) document.   *)

ChangePath == "main.spx"

StoredContents == {<<>>, <<97>>, <<97, 10, 98>>, <<195, 169>>, HostText}

InitFiles ==
    {EmptyFiles}
    \cup {[EmptyFiles EXCEPT ![ChangePath] = MkFile(c, v)] :
             c \in StoredContents, v \in Versions}

EditPositions == {Pos(l, c) : l \in 0..1, c \in 0..2}

\* The change lists: none, one change in full, one or two ranged changes, a
\* change without range among ranged ones, and a range length without range.
ChangeEdits ==
    {<<>>, <<Edit(NoRange, 0, <<98>>)>>, <<Edit(NoRange, 1, <<98>>)>>}
    \cup {<<Edit([start |-> a, end |-> b], 0, x)>> :
             a \in EditPositions, b \in EditPositions, x \in {<<>>, <<98>>}}
    \cup {<<Incr(0, 0, 0, 0, <<98>>), Incr(0, 0, 0, c, <<>>)>> : c \in 0..2}
    \cup {<<Incr(0, 0, 0, 0, <<98>>), Edit(NoRange, 0, <<98>>)>>}

InitChange ==
    /\ files \in InitFiles
    /\ now = MaxClientVersion + 1
    /\ workers = [i \in Slots |-> Idle]
    /\ ev = NoEv
    /\ budget = 1
    /\ NoCompile

NextChange ==
    \/ \E e \in ChangeEdits, v \in Versions :
          DidChange(toDocumentURI(ChangePath), e, v)
    \/ \E i \in Slots, p \in PublishOutcomes : DiagStep(i, p.built, p.ok)

SpecChange == InitChange /\ [][NextChange]_vars

---------------------------------------------------------------------------
(* C6: didChange with exactly one change without range (and without range  *)
(* length) replaces the whole stored content by the text of the change;    *)
(* otherwise the changes are applied in list order, each to the content    *)
(* the one before produced, replacing the bytes between the start and the  *)
(* end offset by the text; and with an empty list, a file not stored, a    *)
(* change without range or an end offset below the start offset, didChange *)
(* returns an error, the stored file is unchanged and no diagnostics are   *)
(* published. The new content is stored under the version rule of C1.      *)

\* The changes applied in list order, or the error cases among them.
RECURSIVE SplicedInOrder(_, _)
SplicedInOrder(content, edits) ==
    IF edits = <<>> THEN [bad |-> FALSE, content |-> content]
    ELSE LET c == Head(edits)
             start == positionOffset(content, c.range.start)
             end == positionOffset(content, c.range.end)
         IN  IF c.range = NoRange \/ end < start
             THEN [bad |-> TRUE, content |-> content]
             ELSE SplicedInOrder(
                      SubSeq(content, 1, start) \o c.text
                          \o SubSeq(content, end + 1, Len(content)),
                      Tail(edits))

\* didChange has returned nil after handing text to the store.
ChangeStored(text) ==
    /\ ev'.err = "nil" /\ ~ev'.panic
    /\ Len(ev'.changes) = 1
    /\ ev'.changes[1].path = ChangePath
    /\ ev'.changes[1].content = text
    /\ (\/ files[ChangePath] = NoFile
        \/ ev'.changes[1].version > files[ChangePath].version)
          => files'[ChangePath] = MkFile(text, ev'.changes[1].version)

C6_DidChangeStep ==
    ev'.op = "textDocument/didChange" =>
        LET edits == ev'.edits
            old == files[ChangePath]
        IN  IF Len(edits) = 1 /\ edits[1].range = NoRange
                /\ edits[1].rangeLength = 0
            THEN ChangeStored(edits[1].text)
            ELSE IF edits = <<>> \/ old = NoFile
                    \/ SplicedInOrder(old.content, edits).bad
            THEN /\ ev'.err # "nil" /\ ~ev'.panic
                 /\ files' = files
                 /\ workers' = workers
                 /\ ev'.msgs = <<>>
            ELSE ChangeStored(SplicedInOrder(old.content, edits).content)

C6_DidChange == [][C6_DidChangeStep]_vars

---------------------------------------------------------------------------
(* C11: a .spx file whose package name is not main gets exactly one        *)
(* diagnostic "package name must be main" and is skipped, so it is never   *)
(* recorded as the main file, whatever its base name; the main file is     *)
(* recorded only from a file named main.spx whose package is main.         *)

C11_FileStep ==
    ev'.op = "compileFile" =>
        LET o == ev'.outcome
            list == cr'.diagnostics[toDocumentURI(ev'.file)]
        IN  /\ (o.ast = "file" /\ o.pkg # "main") =>
                  /\ Cardinality({k \in 1..Len(list) :
                                     list[k] = PackageNameDiagnostic}) = 1
                  /\ cr'.mainSpxFile = cr.mainSpxFile
            /\ cr'.mainSpxFile # cr.mainSpxFile =>
                  /\ cr'.mainSpxFile = ev'.file
                  /\ Base(ev'.file) = "main.spx"
                  /\ o.ast = "file" /\ o.pkg = "main"

C11_PackageMain == [][C11_FileStep]_vars

---------------------------------------------------------------------------
(* C12: given a main file, compile returns a result in which every parse,  *)
(* code generation and type-check error of the files is recorded as a      *)
(* diagnostic: no such error makes compile return an error or panic, and   *)
(* none is dropped without a diagnostic.                                   *)

Messages(list) == {list[k].message : k \in 1..Len(list)}

\* The error of snapshot.AST for the file just visited is in its diagnostics.
C12_FileStep ==
    (ev'.op = "compileFile" /\ ev'.outcome.err # "nil") =>
        LET o == ev'.outcome
            list == cr'.diagnostics[toDocumentURI(ev'.file)]
        IN  IF o.err = "errorList" /\ o.posValid
            THEN \A k \in 1..Len(o.msgs) : o.msgs[k] \in Messages(list)
            ELSE list # <<>>

\* compile has returned with a main file: it returned the result, and every
\* error of the type check is in the diagnostics of its file.
C12_Returned ==
    (Returned /\ ev.op = "compileReturn" /\ cr.mainSpxFile # "") =>
        /\ cret = "result"
        /\ \A k \in 1..Len(ev.errs) :
              ev.errs[k].msg \in
                  Messages(MapGet(cr.diagnostics,
                                  toDocumentURI(ev.errs[k].filename), <<>>))

C12_ErrorsBecomeDiagnostics == [](C12_Returned) /\ [][C12_FileStep]_vars

---------------------------------------------------------------------------
(* C13: didClose(uri) sends exactly one publishDiagnostics notification    *)
(* for uri, with no diagnostics, on the dispatcher's path (no goroutine is *)
(* started), and leaves the file map unchanged: the closed document stays  *)
(* stored with its content and version.                                    *)

C13_CloseStep ==
    ev'.op = "textDocument/didClose" =>
        /\ Len(ev'.msgs) = 1
        /\ ev'.msgs[1].kind = "textDocument/publishDiagnostics"
        /\ ev'.msgs[1].uri = ev'.uri
        /\ ev'.msgs[1].body = "no diagnostics"
        /\ ev'.thread = "dispatcher"
        /\ ev'.spawned = NoEv.spawned
        /\ \A i \in Slots : workers'[i].kind = workers[i].kind
        /\ files' = files

C13_DidClose == [][C13_CloseStep]_vars

\* A stored document has been closed: it is still stored, one notification left.
C13_Witness ==
    /\ ev.op = "textDocument/didClose"
    /\ ev.uri = toDocumentURI("main.spx")
    /\ files["main.spx"] # NoFile
    /\ Len(ev.msgs) = 1

---------------------------------------------------------------------------
(* The specification of the position translations on one stored document.  *)

\* utf16Offset: len(utf16.Encode([]rune(s))), the runes decoded as range does.
RECURSIVE utf16OffsetFrom(_, _)
utf16OffsetFrom(s, i) ==
    IF i > Len(s) THEN 0
    ELSE LET d == DecodeRune(s, i)
         IN  (IF d.r >= 65536 THEN 2 ELSE 1) + utf16OffsetFrom(s, i + d.w)

utf16Offset(s) == utf16OffsetFrom(s, 1)

\* The start of the line that holds byte offset off: after the last newline
\* before it (the line table of the token file).
LineStartOf(content, off) ==
    LET nl == {k \in 1..off : content[k] = 10}
    IN  IF nl = {} THEN 0 ELSE CHOOSE k \in nl : \A j \in nl : j <= k

\* fromPosition on the token position of byte offset off (line and column are
\* 1-based): the line, and the UTF-16 length of the line up to the column.
\* Slicing the code past its end panics.
fromPosition(content, off) ==
    IF off > Len(content)
    THEN [panic |-> TRUE, position |-> Pos(0, 0)]
    ELSE LET line == Cardinality({k \in 1..off : content[k] = 10}) + 1
             relLineStart == LineStartOf(content, off)
             column == off - relLineStart + 1
             lineContent == SubSeq(content, relLineStart + 1,
                                   relLineStart + column - 1)
         IN  [panic |-> FALSE,
              position |-> Pos(line - 1, utf16Offset(lineContent))]

OffsetPath == "main.spx"

\* The pieces documents are made of: a, newline, the two bytes of U+00E9 (each
\* also alone), the four bytes of U+1F600, and a byte no encoding starts with.
ByteUnits == {<<97>>, <<10>>, <<195>>, <<169>>, <<240, 159, 152, 128>>, <<255>>}

RECURSIVE ContentsOfAtMost(_)
ContentsOfAtMost(n) ==
    IF n = 0 THEN {<<>>}
    ELSE LET prev == ContentsOfAtMost(n - 1)
         IN  prev \cup {c \o u : c \in prev, u \in ByteUnits}

OffsetPositions == {Pos(l, c) : l \in 0..MaxLen, c \in 0..MaxLen + 1}

PositionOffset(p) ==
    /\ ev.op = "init"
    /\ ev' = [NoEv EXCEPT !.op = "positionOffset", !.position = p,
                          !.offset = positionOffset(files[OffsetPath].content, p)]
    /\ UNCHANGED <<files, now, workers, budget, compileVars>>

FromPosition ==
    /\ ev.op = "positionOffset"
    /\ LET r == fromPosition(files[OffsetPath].content, ev.offset)
       IN  ev' = [ev EXCEPT !.op = "fromPosition", !.panic = r.panic,
                            !.translated = r.position]
    /\ UNCHANGED <<files, now, workers, budget, compileVars>>

InitOffset ==
    /\ \E c \in ContentsOfAtMost(MaxLen) :
          files = [EmptyFiles EXCEPT ![OffsetPath] = MkFile(c, 1)]
    /\ ServerAtRest
    /\ budget = 0
    /\ NoCompile

NextOffset ==
    \/ \E p \in OffsetPositions : PositionOffset(p)
    \/ FromPosition

SpecOffset == InitOffset /\ [][NextOffset]_vars

---------------------------------------------------------------------------
(* C14: for every content (any bytes) and every position, positionOffset   *)
(* returns an offset between 0 and len(content): 0 for empty content,      *)
(* len(content) when the line is past the last line, and the offset of the *)
(* end of the line (just before its newline) when the character count      *)
(* exceeds the UTF-16 length of the line.                                  *)

\* The end of line l of content: its newline, or the end of content.
LineEnd(content, l) ==
    LET ls == lineStarts(content)
    IN  IF l + 1 < Len(ls) THEN ls[l + 2] - 1 ELSE Len(content)

LineContent(content, l) ==
    SubSeq(content, lineStarts(content)[l + 1] + 1, LineEnd(content, l))

C14_OffsetInContent ==
    ev.op = "positionOffset" =>
        LET content == files[OffsetPath].content
            p == ev.position
        IN  /\ ev.offset \in 0..Len(content)
            /\ content = <<>> => ev.offset = 0
            /\ (content # <<>> /\ p.line >= Len(lineStarts(content)))
                  => ev.offset = Len(content)
            /\ (/\ content # <<>>
                /\ p.line < Len(lineStarts(content))
                /\ p.character > utf16Offset(LineContent(content, p.line)))
                  => ev.offset = LineEnd(content, p.line)

---------------------------------------------------------------------------
(* C15: for every content and every position p on a rune boundary inside   *)
(* the document, translating the byte offset positionOffset(content, p)    *)
(* back into a (line, UTF-16 character) position and applying              *)
(* positionOffset again yields the same byte offset, and the translated    *)
(* position equals p.                                                      *)

\* The UTF-16 character counts at which a rune of the line s starts or ends.
RECURSIVE RuneBoundariesFrom(_, _, _)
RuneBoundariesFrom(s, i, units) ==
    IF i > Len(s) THEN {units}
    ELSE LET d == DecodeRune(s, i)
         IN  {units} \cup RuneBoundariesFrom(s, i + d.w,
                                             units + utf16RuneLen(d.r))

OnRuneBoundary(content, p) ==
    /\ content # <<>>
    /\ p.line < Len(lineStarts(content))
    /\ p.character \in RuneBoundariesFrom(LineContent(content, p.line), 1, 0)

C15_RoundTrip ==
    (ev.op = "fromPosition"
     /\ OnRuneBoundary(files[OffsetPath].content, ev.position)) =>
        /\ ~ev.panic
        /\ ev.translated = ev.position
        /\ positionOffset(files[OffsetPath].content, ev.translated) = ev.offset

---------------------------------------------------------------------------
(* PathEnclosingInterval over syntax trees. A node is its interval          *)
(* [pos, end), whether it is a bare token, and childrenOf(node): its        *)
(* subtrees and tokens sorted by position.                                  *)

Node(pos, end, isToken, children) ==
    [pos |-> pos, end |-> end, isToken |-> isToken, children |-> children]

Reverse(q) == [k \in 1..Len(q) |-> q[Len(q) + 1 - k]]

RECURSIVE visit(_, _, _)
RECURSIVE visitChildren(_, _, _, _)
RECURSIVE visitChildrenNoGap(_, _, _, _)

\* The loop of visit without its test for an interval that lies between a
\* child and the next one.
visitChildrenNoGap(node, i, start, end) ==
    LET children == node.children
        l == Len(children)
        atNode == [path |-> <<node>>,
                   exact |-> (start = node.pos /\ end = node.end)]
    IN  IF i > l THEN atNode
        ELSE
            LET child == children[i]
                augPos == IF i > 1 THEN children[i - 1].end ELSE child.pos
                augEnd == IF i < l THEN children[i + 1].pos ELSE child.end
            IN  IF augPos <= start /\ end <= augEnd
                THEN IF child.isToken
                     THEN [path |-> <<node>>, exact |-> TRUE]
                     ELSE LET r == visit(child, start, end)
                          IN  [path |-> <<node>> \o r.path, exact |-> r.exact]
                ELSE IF start < child.end /\ end > augEnd
                THEN atNode
                ELSE visitChildrenNoGap(node, i + 1, start, end)

\* The loop of visit over the children of node from index i on, start and end
\* already intersected with the interval of node. The result is the path from
\* node down and the value visit returns.
visitChildren(node, i, start, end) ==
    LET children == node.children
        l == Len(children)
        atNode == [path |-> <<node>>,
                   exact |-> (start = node.pos /\ end = node.end)]
    IN  IF i > l THEN atNode
        ELSE
            LET child == children[i]
                augPos == IF i > 1 THEN children[i - 1].end ELSE child.pos
                between == /\ i < l
                           /\ start >= child.end
                           /\ end <= children[i + 1].pos
                augEnd == IF i < l THEN children[i + 1].pos ELSE child.end
            IN  IF between THEN [path |-> <<node>>, exact |-> FALSE]
                ELSE IF augPos <= start /\ end <= augEnd
                THEN IF child.isToken
                     THEN [path |-> <<node>>, exact |-> TRUE]
                     ELSE LET r == visit(child, start, end)
                          IN  [path |-> <<node>> \o r.path, exact |-> r.exact]
                ELSE IF start < child.end /\ end > augEnd
                THEN atNode
                ELSE visitChildren(node, i + 1, start, end)

visit(node, start, end) ==
    visitChildren(node, 1,
                  IF start < node.pos THEN node.pos ELSE start,
                  IF end > node.end THEN node.end ELSE end)

PathEnclosingInterval(root, start0, end0) ==
    LET start == IF start0 > end0 THEN end0 ELSE start0
        end == IF start0 > end0 THEN start0 ELSE end0
    IN  IF /\ start < root.end
           /\ (end > root.pos \/ (~root.hasPkg /\ end = root.pos))
        THEN LET r == visit(root, start, IF start = end THEN start + 1 ELSE end)
             IN  [path |-> Reverse(r.path), exact |-> r.exact]
        ELSE [path |-> <<root>>, exact |-> FALSE]

---------------------------------------------------------------------------
(* The specification of PathEnclosingInterval calls on one file.           *)

Leaves ==
    {x \in {Node(a, b, t, <<>>) : a \in 1..MaxPos, b \in 1..MaxPos, t \in BOOLEAN} :
        x.pos < x.end}

\* Node lists in source order without overlap, of at most n nodes.
RECURSIVE NodeLists(_, _)
NodeLists(nodes, n) ==
    IF n = 1 THEN {<<x>> : x \in nodes}
    ELSE LET prev == NodeLists(nodes, n - 1)
         IN  prev \cup UNION {{Append(q, x) :
                                  x \in {y \in nodes : q[Len(q)].end <= y.pos}} :
                              q \in prev}

\* A node over its children: its interval runs from the first to the last.
Over(q) == Node(q[1].pos, q[Len(q)].end, FALSE, q)

Inner == {Over(q) : q \in NodeLists(Leaves, 2)}

\* The declarations of a file: leaves that are no tokens, and inner nodes.
Decls == {x \in Leaves : ~x.isToken} \cup Inner

File(q, hasPkg) ==
    [pos |-> q[1].pos, end |-> q[Len(q)].end, isToken |-> FALSE,
     children |-> q, hasPkg |-> hasPkg]

\* File roots: with package clause, the package token, the name and the
\* declarations; without, the declarations alone. The file runs from its first
\* child to the end of its last.
FileRoots ==
    LET lists == {q \in NodeLists(Decls \cup {x \in Leaves : x.isToken}, MaxChildren) :
                     \A k \in 2..Len(q) : ~q[k].isToken}
        withPkg == {q \in lists : /\ q[1].isToken
                                  /\ Len(q) >= 2
                                  /\ q[2].children = <<>>}
        withoutPkg == {q \in lists : ~q[1].isToken}
    IN  {File(q, TRUE) : q \in withPkg} \cup {File(q, FALSE) : q \in withoutPkg}

\* The positions of a query: inside the file, before and after it.
QueryPositions == 0..MaxPos + 1

\* A call of PathEnclosingInterval on the file.
Enclose(start, end) ==
    /\ ev.op = "init"
    /\ LET r == PathEnclosingInterval(astFile, start, end)
       IN  ev' = [NoEv EXCEPT !.op = "PathEnclosingInterval", !.start = start,
                              !.end = end, !.path = r.path, !.exact = r.exact]
    /\ UNCHANGED <<files, now, workers, budget, compileVars>>

\* A second call, on an interval that contains the one of the first call.
EncloseWider(start, end) ==
    /\ ev.op = "PathEnclosingInterval"
    /\ ev.firstPath = <<>>
    /\ start <= ev.start /\ ev.start <= ev.end /\ ev.end <= end
    /\ LET r == PathEnclosingInterval(astFile, start, end)
       IN  ev' = [ev EXCEPT !.start = start, !.end = end, !.path = r.path,
                            !.exact = r.exact, !.firstStart = ev.start,
                            !.firstEnd = ev.end, !.firstPath = ev.path]
    /\ UNCHANGED <<files, now, workers, budget, compileVars>>

InitPath ==
    /\ files = EmptyFiles
    /\ ServerAtRest
    /\ budget = 0
    /\ cr = [diagnostics |-> <<>>, seen |-> <<>>, hasError |-> FALSE,
             mainSpxFile |-> ""]
    /\ cpc = "idle"
    /\ csnap = <<>>
    /\ ctodo = {}
    /\ cret = "none"
    /\ astFile \in FileRoots

NextPath ==
    \/ \E a \in QueryPositions, b \in QueryPositions : Enclose(a, b)
    \/ \E a \in QueryPositions, b \in QueryPositions : EncloseWider(a, b)

SpecPath == InitPath /\ [][NextPath]_vars

---------------------------------------------------------------------------
(* C16: for every file root, PathEnclosingInterval(root, root.Pos(),       *)
(* root.End()) returns a path of length 1 that holds only the root, with   *)
(* exact = true, whatever the number of children of the root (a root with  *)
(* a single child and a root without package clause included).             *)

C16_WholeFile ==
    (/\ ev.op = "PathEnclosingInterval"
     /\ ev.start = astFile.pos
     /\ ev.end = astFile.end) =>
        /\ ev.path = <<astFile>>
        /\ ev.exact

---------------------------------------------------------------------------
(* C17: PathEnclosingInterval is path-prefix-monotone: for two query       *)
(* intervals I and J of the same file with I contained in J, the path      *)
(* returned for J is not shorter than the path returned for I.             *)

\* Two calls have been made, the second on an interval containing the first.
TwoCalls == ev.op = "PathEnclosingInterval" /\ ev.firstPath # <<>>

C17_WiderNotShorter == TwoCalls => Len(ev.path) >= Len(ev.firstPath)

\* p is the end of q: the nodes of p are the outermost nodes of q.
IsSuffix(p, q) ==
    /\ Len(p) <= Len(q)
    /\ \A k \in 1..Len(p) : p[k] = q[Len(q) - Len(p) + k]

\* What holds instead: the two paths lie on one branch of the tree, one of
\* them is the outer end of the other, and both end at the root.
C17_SameBranch ==
    (TwoCalls /\ ev.firstStart < ev.firstEnd) =>
        /\ IsSuffix(ev.path, ev.firstPath) \/ IsSuffix(ev.firstPath, ev.path)
        /\ ev.path[Len(ev.path)] = astFile
        /\ ev.firstPath[Len(ev.firstPath)] = astFile

\* The wider interval got the shorter path.
C17_Witness ==
    TwoCalls /\ ev.firstStart < ev.firstEnd /\ Len(ev.path) < Len(ev.firstPath)

---------------------------------------------------------------------------
(* The specification of inspectForSpxResourceRefs: the resource references *)
(* of a compile result, built twice from the same type information.        *)

SpxResourceRef(id, kind, node) == [id |-> id, kind |-> kind, node |-> node]

\* compileResult.addSpxResourceRef
addSpxResourceRef(r, ref) ==
    IF ref \in r.seenSpxResourceRefs THEN r
    ELSE [r EXCEPT !.seenSpxResourceRefs = @ \cup {ref},
                   !.spxResourceRefs = Append(@, ref)]

RECURSIVE addSpxResourceRefs(_, _)
addSpxResourceRefs(r, refs) ==
    IF refs = <<>> THEN r
    ELSE addSpxResourceRefs(addSpxResourceRef(r, Head(refs)), Tail(refs))

NoRefs == [spxResourceRefs |-> <<>>, seenSpxResourceRefs |-> {}]

\* An entry of typeInfo.Defs, Uses or Types with the references its inspection
\* adds, in the order of the calls of addSpxResourceRef.
TableEntry(table, node, refs) == [table |-> table, node |-> node, refs |-> refs]

\* Two auto-bound fields, a use of a constant (an identifier, which the types
\* table holds too), a string literal, a call with two resource arguments and
\* an expression without resource.
TableEntries ==
    {TableEntry("defs", 1, <<SpxResourceRef("sounds/a", "auto-binding", 1)>>),
     TableEntry("defs", 2, <<SpxResourceRef("sprites/b", "auto-binding", 2)>>),
     TableEntry("uses", 3, <<SpxResourceRef("sounds/a", "constant-reference", 3)>>),
     TableEntry("types", 3, <<SpxResourceRef("sounds/a", "constant-reference", 3)>>),
     TableEntry("types", 4, <<SpxResourceRef("sprites/b", "string-literal", 4)>>),
     TableEntry("types", 5, <<SpxResourceRef("sprites/b", "string-literal", 6),
                              SpxResourceRef("sounds/a", "string-literal", 7)>>),
     TableEntry("types", 8, <<>>)}

NextTable(table) ==
    CASE table = "defs" -> "uses"
      [] table = "uses" -> "types"
      [] table = "types" -> "built"

\* One iteration of a range loop over a table: Go ranges over a map in an
\* order of its own, so any entry not yet visited may come next.
InspectEntry(e) ==
    /\ cpc \in {"defs", "uses", "types"}
    /\ e \in ctodo
    /\ e.table = cpc
    /\ cr' = addSpxResourceRefs(cr, e.refs)
    /\ ctodo' = ctodo \ {e}
    /\ ev' = [ev EXCEPT !.op = "inspectForSpxResourceRefs"]
    /\ UNCHANGED <<files, now, workers, budget, cpc, csnap, cret, astFile>>

\* The range loop over a table ends; the next loop starts.
EndOfTable ==
    /\ cpc \in {"defs", "uses", "types"}
    /\ \A e \in ctodo : e.table # cpc
    /\ cpc' = NextTable(cpc)
    /\ ev' = [ev EXCEPT !.op = "inspectForSpxResourceRefs"]
    /\ UNCHANGED <<files, now, workers, budget, cr, csnap, ctodo, cret, astFile>>

\* A second compile of the same snapshot builds the index anew.
BuildAgain ==
    /\ cpc = "built"
    /\ cret = "none"
    /\ cret' = "result"
    /\ cr' = NoRefs
    /\ ctodo' = csnap
    /\ cpc' = "defs"
    /\ ev' = [NoEv EXCEPT !.op = "compile", !.firstRefs = cr.spxResourceRefs]
    /\ UNCHANGED <<files, now, workers, budget, csnap, astFile>>

InitRefs ==
    /\ files = EmptyFiles
    /\ ServerAtRest
    /\ budget = 0
    /\ csnap \in SUBSET TableEntries
    /\ ctodo = csnap
    /\ cr = NoRefs
    /\ cpc = "defs"
    /\ cret = "none"
    /\ astFile = NoAST

NextRefs ==
    \/ \E e \in TableEntries : InspectEntry(e)
    \/ EndOfTable
    \/ BuildAgain

SpecRefs == InitRefs /\ [][NextRefs]_vars

---------------------------------------------------------------------------
(* C18: building the resource index twice over the same snapshot yields    *)
(* identical resource-reference lists, the same references in the same     *)
(* order, whatever the iteration order of the defs, uses and types tables, *)
(* and no (ID, kind, node) triple appears twice in a list.                 *)

BuiltTwice == cpc = "built" /\ cret = "result"

C18_SameRefsTwice ==
    BuiltTwice =>
        /\ cr.spxResourceRefs = ev.firstRefs
        /\ \A j, k \in 1..Len(cr.spxResourceRefs) :
              cr.spxResourceRefs[j] = cr.spxResourceRefs[k] => j = k

\* The part that holds: the same references, each once, in some order.
C18_SameRefSet ==
    BuiltTwice =>
        /\ SeqRange(cr.spxResourceRefs) = SeqRange(ev.firstRefs)
        /\ Len(cr.spxResourceRefs) = Len(ev.firstRefs)
        /\ \A j, k \in 1..Len(cr.spxResourceRefs) :
              cr.spxResourceRefs[j] = cr.spxResourceRefs[k] => j = k

---------------------------------------------------------------------------
(* The specification of spxDefinitionsForIdent on one identifier.          *)

\* A types.Object as spxDefinitionsFor looks at it: its dynamic type, whether
\* it is in the builtin package, whether its defining identifier is implicit,
\* and for a function what gogen.CheckSigFuncEx (marker) and
\* gogen.CheckSigFuncExObjects (expandable, objs) say about its signature.
Object(kind, inBuiltinPkg, implicitDef, marker, expandable, objs) ==
    [kind |-> kind, inBuiltinPkg |-> inBuiltinPkg, implicitDef |-> implicitDef,
     marker |-> marker, expandable |-> expandable, objs |-> objs]

NilObject == Object("nil", FALSE, FALSE, FALSE, FALSE, <<>>)

SpxDefinition(kind, name) == [kind |-> kind, name |-> name]

\* isUnexpandableGopOverloadableFunc
isUnexpandableGopOverloadableFunc(fun) == fun.marker /\ ~fun.expandable

\* expandGopOverloadableFunc: the overloads, or nil.
expandGopOverloadableFunc(fun) ==
    IF ~fun.expandable THEN [isNil |-> TRUE, overloads |-> <<>>]
    ELSE [isNil |-> FALSE, overloads |-> fun.objs]

\* spxDefinitionsFor without the expansion of overloadable functions.
spxDefinitionsForNoExpand(obj) ==
    IF obj = NilObject THEN <<>>
    ELSE IF obj.inBuiltinPkg THEN <<SpxDefinition("builtin", "self")>>
    ELSE IF obj.kind \in {"Var", "Const", "TypeName", "PkgName"}
    THEN <<SpxDefinition(obj.kind, "self")>>
    ELSE IF obj.kind = "Func"
    THEN IF obj.implicitDef THEN <<>>
         ELSE IF isUnexpandableGopOverloadableFunc(obj) THEN <<>>
         ELSE <<SpxDefinition("Func", "self")>>
    ELSE <<>>

\* compileResult.spxDefinitionsFor
spxDefinitionsFor(obj) ==
    IF obj = NilObject THEN <<>>
    ELSE IF obj.inBuiltinPkg THEN <<SpxDefinition("builtin", "self")>>
    ELSE IF obj.kind \in {"Var", "Const", "TypeName", "PkgName"}
    THEN <<SpxDefinition(obj.kind, "self")>>
    ELSE IF obj.kind = "Func"
    THEN IF obj.implicitDef THEN <<>>
         ELSE IF isUnexpandableGopOverloadableFunc(obj) THEN <<>>
         ELSE LET funcOverloads == expandGopOverloadableFunc(obj)
              IN  IF ~funcOverloads.isNil
                  THEN [k \in 1..Len(funcOverloads.overloads) |->
                           SpxDefinition("Func", funcOverloads.overloads[k])]
                  ELSE <<SpxDefinition("Func", "self")>>
    ELSE <<>>

\* compileResult.spxDefinitionsForIdent
spxDefinitionsForIdent(ident, obj) ==
    IF ident = "_" THEN <<>> ELSE spxDefinitionsFor(obj)

\* The overload lists: f__0, f__1, ... up to MaxOverloads of them.
OverloadLists ==
    {[k \in 1..n |-> <<"f", k - 1>>] : n \in 0..MaxOverloads}

Objects ==
    {NilObject}
    \cup {Object(kind, b, FALSE, FALSE, FALSE, <<>>) :
             kind \in {"Var", "Const", "TypeName", "PkgName", "Builtin", "Label"},
             b \in BOOLEAN}
    \cup {Object("Func", b, i, FALSE, FALSE, <<>>) : b \in BOOLEAN, i \in BOOLEAN}
    \cup {Object("Func", b, i, TRUE, FALSE, <<>>) : b \in BOOLEAN, i \in BOOLEAN}
    \cup {Object("Func", b, i, TRUE, TRUE, objs) :
             b \in BOOLEAN, i \in BOOLEAN, objs \in OverloadLists}

\* A call of spxDefinitionsForIdent on the identifier of the snapshot.
SpxDefinitionsForIdent ==
    /\ ev.op = "init"
    /\ ev' = [NoEv EXCEPT !.op = "spxDefinitionsForIdent",
                          !.defs = spxDefinitionsForIdent(csnap.ident, csnap.obj)]
    /\ UNCHANGED <<files, now, workers, budget, cr, cpc, csnap, ctodo, cret,
                   astFile>>

InitDefs ==
    /\ files = EmptyFiles
    /\ ServerAtRest
    /\ budget = 0
    /\ cr = [diagnostics |-> <<>>, seen |-> <<>>, hasError |-> FALSE,
             mainSpxFile |-> ""]
    /\ cpc = "idle"
    /\ \E ident \in {"_", "x"}, obj \in Objects :
          csnap = [ident |-> ident, obj |-> obj]
    /\ ctodo = {}
    /\ cret = "none"
    /\ astFile = NoAST

NextDefs == SpxDefinitionsForIdent

SpecDefs == InitDefs /\ [][NextDefs]_vars

---------------------------------------------------------------------------
(* C19: spxDefinitionsForIdent returns no record for the identifier _;     *)
(* exactly one record for a builtin, variable, constant, type name,        *)
(* package name or ordinary function; for a function with the overload     *)
(* marker that expands to N overloads exactly N records, one per overload  *)
(* in the order of the expansion; and no record for an overload-marked     *)
(* function that cannot be expanded.                                       *)

DefsReturned == ev.op = "spxDefinitionsForIdent"

\* One record per overload, in the order of the expansion.
OnePerOverload(defs, objs) ==
    /\ Len(defs) = Len(objs)
    /\ \A k \in 1..Len(objs) : defs[k] = SpxDefinition("Func", objs[k])

\* The statement as it stands, a builtin being an object of the builtin
\* package and the other cases being about objects outside it.
C19_DefinitionsLiteral ==
    DefsReturned =>
        LET obj == csnap.obj
            defs == ev.defs
        IN  IF csnap.ident = "_" THEN defs = <<>>
            ELSE IF obj = NilObject THEN TRUE
            ELSE IF obj.inBuiltinPkg THEN Len(defs) = 1
            ELSE /\ obj.kind \in {"Var", "Const", "TypeName", "PkgName"}
                       => Len(defs) = 1
                 /\ (obj.kind = "Func" /\ ~obj.marker) => Len(defs) = 1
                 /\ (obj.kind = "Func" /\ obj.marker /\ obj.expandable)
                       => OnePerOverload(defs, obj.objs)
                 /\ (obj.kind = "Func" /\ obj.marker /\ ~obj.expandable)
                       => defs = <<>>

\* The statement that holds: a function whose defining identifier is implicit
\* has no record, whatever its signature; the function cases are about
\* functions defined by an identifier of the source.
C19_Definitions ==
    DefsReturned =>
        LET obj == csnap.obj
            defs == ev.defs
        IN  IF csnap.ident = "_" \/ obj = NilObject THEN defs = <<>>
            ELSE IF obj.inBuiltinPkg THEN Len(defs) = 1
            ELSE IF obj.kind \in {"Var", "Const", "TypeName", "PkgName"}
            THEN Len(defs) = 1
            ELSE IF obj.kind # "Func" \/ obj.implicitDef THEN defs = <<>>
            ELSE IF ~obj.marker THEN Len(defs) = 1
            ELSE IF obj.expandable THEN OnePerOverload(defs, obj.objs)
            ELSE defs = <<>>

\* An overloadable function with two overloads has got its two records.
C19_Witness ==
    /\ DefsReturned
    /\ csnap.ident = "x"
    /\ csnap.obj.kind = "Func" /\ csnap.obj.expandable /\ ~csnap.obj.inBuiltinPkg
    /\ Len(csnap.obj.objs) = 2
    /\ Len(ev.defs) = 2

---------------------------------------------------------------------------
(* The file helpers of xgoutil: PosFilename, PosTokenFile, PosASTFile and  *)
(* their Node variants, on a project and a position or node.               *)

\* A project: nil, or the names of its files. Its file set gives main.spx the
\* positions 1..MaxPos and a.spx the positions MaxPos+1..2*MaxPos.
NilProject == [isNil |-> TRUE, names |-> {}]

Project(names) == [isNil |-> FALSE, names |-> names]

TokenBase(name) == IF name = "main.spx" THEN 1 ELSE MaxPos + 1

\* The token file of proj.Fset that holds pos, by its name ("" for none).
FsetFile(proj, pos) ==
    LET holds == {n \in proj.names : TokenBase(n) <= pos /\ pos < TokenBase(n) + MaxPos}
    IN  IF holds = {} THEN "" ELSE CHOOSE n \in holds : TRUE

\* proj.AST(name): the syntax tree of the file, by the name of the file.
AST(proj, name) == IF name \in proj.names THEN <<"ast.File", name>> ELSE ""

\* proj.ASTPackage().Files[name]
ASTPackageFile(proj, name) == AST(proj, name)

Returns(v) == [panic |-> FALSE, value |-> v]

Panic == [panic |-> TRUE, value |-> ""]

\* A node: the nil interface, a nil pointer of a node type in the interface,
\* or a node at a position.
NilNode == [kind |-> "nil", pos |-> 0]

TypedNilNode == [kind |-> "typed nil", pos |-> 0]

NodeAt(pos) == [kind |-> "node", pos |-> pos]

PosFilename(proj, pos) ==
    IF proj.isNil \/ pos = 0 THEN Returns("") ELSE Returns(FsetFile(proj, pos))

PosTokenFile(proj, pos) ==
    IF proj.isNil \/ pos = 0 THEN Returns("") ELSE Returns(FsetFile(proj, pos))

PosASTFile(proj, pos) ==
    IF proj.isNil \/ pos = 0 THEN Returns("")
    ELSE Returns(ASTPackageFile(proj, PosFilename(proj, pos).value))

\* node == nil is false for a nil pointer in the interface: node.Pos() is
\* called on it and dereferences it.
NodeFilename(proj, node) ==
    IF proj.isNil \/ node = NilNode THEN Returns("")
    ELSE IF node = TypedNilNode THEN Panic
    ELSE PosFilename(proj, node.pos)

NodeTokenFile(proj, node) ==
    IF proj.isNil \/ node = NilNode THEN Returns("")
    ELSE IF node = TypedNilNode THEN Panic
    ELSE PosTokenFile(proj, node.pos)

NodeASTFile(proj, node) ==
    IF proj.isNil \/ node = NilNode THEN Returns("")
    ELSE IF node = TypedNilNode THEN Panic
    ELSE PosASTFile(proj, node.pos)

Projects == {NilProject} \cup {Project(ns) : ns \in SUBSET {"main.spx", "a.spx"}}

HelperPositions == 0..2 * MaxPos + 1

\* The three Pos helpers on a position.
PosHelpers(pos) ==
    /\ ev.op = "init"
    /\ ev' = [NoEv EXCEPT !.op = "Pos helpers", !.pos = pos,
                          !.filename = PosFilename(csnap, pos),
                          !.tokenFile = PosTokenFile(csnap, pos),
                          !.fileAST = PosASTFile(csnap, pos)]
    /\ UNCHANGED <<files, now, workers, budget, compileVars>>

\* The three Node helpers on a node.
NodeHelpers(node) ==
    /\ ev.op = "init"
    /\ ev' = [NoEv EXCEPT !.op = "Node helpers", !.node = node, !.pos = node.pos,
                          !.filename = NodeFilename(csnap, node),
                          !.tokenFile = NodeTokenFile(csnap, node),
                          !.fileAST = NodeASTFile(csnap, node)]
    /\ UNCHANGED <<files, now, workers, budget, compileVars>>

InitHelpers ==
    /\ files = EmptyFiles
    /\ ServerAtRest
    /\ budget = 0
    /\ cr = [diagnostics |-> <<>>, seen |-> <<>>, hasError |-> FALSE,
             mainSpxFile |-> ""]
    /\ cpc = "idle"
    /\ csnap \in Projects
    /\ ctodo = {}
    /\ cret = "none"
    /\ astFile = NoAST

NextHelpers ==
    \/ \E pos \in HelperPositions : PosHelpers(pos)
    \/ \E node \in {NilNode, TypedNilNode} \cup {NodeAt(p) : p \in HelperPositions \ {0}} :
          NodeHelpers(node)

SpecHelpers == InitHelpers /\ [][NextHelpers]_vars

---------------------------------------------------------------------------
(* C20: for every valid position or node that belongs to a file F of the   *)
(* project, PosFilename/NodeFilename return F's name, PosTokenFile/        *)
(* NodeTokenFile return a token file that is not nil, and PosASTFile/      *)
(* NodeASTFile return exactly the file proj.AST(F) returns; each Node      *)
(* helper equals the Pos helper applied to node.Pos(); with a nil project, *)
(* a nil node or an invalid position they return the empty string or nil   *)
(* instead of failing.                                                     *)

HelpersCalled == ev.op \in {"Pos helpers", "Node helpers"}

\* The file of the project the position of the call belongs to, or "".
FileOfCall == IF csnap.isNil THEN "" ELSE FsetFile(csnap, ev.pos)

C20_FileHelpers ==
    HelpersCalled =>
        /\ ~ev.filename.panic /\ ~ev.tokenFile.panic /\ ~ev.fileAST.panic
        /\ (ev.pos # 0 /\ FileOfCall # "") =>
              /\ ev.filename.value = FileOfCall
              /\ ev.tokenFile.value # ""
              /\ ev.fileAST.value = AST(csnap, FileOfCall)
        /\ (csnap.isNil \/ ev.pos = 0) =>
              /\ ev.filename.value = ""
              /\ ev.tokenFile.value = ""
              /\ ev.fileAST.value = ""
        /\ (ev.op = "Node helpers" /\ ev.node.kind = "node") =>
              /\ ev.filename = PosFilename(csnap, ev.node.pos)
              /\ ev.tokenFile = PosTokenFile(csnap, ev.node.pos)
              /\ ev.fileAST = PosASTFile(csnap, ev.node.pos)

---------------------------------------------------------------------------
(* C21: the diagnostics publications of two successive didChange           *)
(* notifications on one document are not ordered. While the goroutines of  *)
(* both notifications have the publication for the document ahead, either  *)
(* of them can publish next: nothing makes the later one wait for the      *)
(* earlier one, so the publication of the later notification can be        *)
(* delivered before that of the earlier one.                               *)

\* The goroutine of slot i has the publication for path ahead.
PublishesNext(i, path) ==
    /\ workers[i].kind = "diag"
    /\ workers[i].paths[workers[i].pos + 1] = path

C21_Unordered ==
    \A i, j \in Slots : \A path \in Paths :
        (i # j /\ PublishesNext(i, path) /\ PublishesNext(j, path)) =>
            /\ ENABLED DiagStep(i, TRUE, TRUE)
            /\ ENABLED DiagStep(j, TRUE, TRUE)

\* The publication of a later didChange has just been delivered while the
\* goroutine of an earlier didChange on the same document has yet to publish.
C21_Witness ==
    /\ ev.op = "publishDiagnostics"
    /\ ev.method = "textDocument/didChange"
    /\ Len(ev.msgs) = 1 /\ ev.msgs[1].ok
    /\ \E i \in Slots :
          /\ PublishesNext(i, ev.paths[ev.index])
          /\ workers[i].handler = "textDocument/didChange"
          /\ workers[i].id < ev.id

---------------------------------------------------------------------------
(* The resource set loader: inspectForSpxResourceSet (compile.go).         *)

\* A call expression of the main file: the name of the called identifier, the
\* number of arguments, the first argument (whether the type checker recorded
\* a type for it, what it is, and its string value when it is a literal or a
\* constant), the line it stands on, and the calls inside the first argument.
CallExpr(name, nargs, arg, line, inner) ==
    [name |-> name, nargs |-> nargs, arg |-> arg, line |-> line, inner |-> inner]

Arg(hasType, kind, value) == [hasType |-> hasType, kind |-> kind, value |-> value]

NoArg == Arg(FALSE, "none", <<>>)

\* types.AssignableTo(firstArgTV.Type, types.Typ[types.String])
AssignableToString(arg) == arg.kind \in {"literal", "const", "var"}

\* goputil.StringLitOrConstValue: the value of a string literal or of a
\* string-typed constant and true, the empty string and false for any other
\* expression. Strings are byte sequences.
StringLitOrConstValue(arg) ==
    IF arg.kind \in {"literal", "const"} THEN [value |-> arg.value, ok |-> TRUE]
    ELSE [value |-> <<>>, ok |-> FALSE]

\* The default resource root directory, "assets".
Assets == <<97, 115, 115, 101, 116, 115>>

\* RangeForNode of the first argument of the call.
ArgRange(call) ==
    [start |-> Pos(call.line, Len(call.inner)),
     end |-> Pos(call.line, Len(call.inner) + 1)]

\* "first argument of run must be a string literal or constant"
RunArgDiagnostic(call) == Diagnostic(SeverityError, ArgRange(call), <<114>>)

\* "failed to create spx resource set: ..."
ResourceSetDiagnostic == Diagnostic(SeverityError, ZeroRange, <<102>>)

\* gopast.Inspect over the call expressions in source order. The callback
\* returns true (the walk goes on into the children of the node) for a call
\* that is not run, has no argument or has no recorded type, and false (the
\* children of this node are left out, the walk goes on after it) once it has
\* read the argument.
RECURSIVE inspectCalls(_, _, _)
inspectCalls(st, mainSpxFile, calls) ==
    IF calls = <<>> THEN st
    ELSE LET c == Head(calls)
         IN  IF c.name # "run" \/ c.nargs = 0 \/ ~c.arg.hasType
             THEN inspectCalls(inspectCalls(st, mainSpxFile, c.inner),
                               mainSpxFile, Tail(calls))
             ELSE IF AssignableToString(c.arg)
             THEN inspectCalls([st EXCEPT !.rootDir = StringLitOrConstValue(c.arg).value],
                               mainSpxFile, Tail(calls))
             ELSE inspectCalls(
                      [st EXCEPT !.r = addDiagnostics(@, toDocumentURI(mainSpxFile),
                                                      <<RunArgDiagnostic(c)>>)],
                      mainSpxFile, Tail(calls))

\* inspectForSpxResourceSet: the root directory it loads the resources from
\* and the compile result it leaves. loadOK: NewSpxResourceSet returns no error.
inspectForSpxResourceSet(r, calls, loadOK) ==
    LET st == inspectCalls([rootDir |-> <<>>, r |-> r], r.mainSpxFile, calls)
        spxResourceRootDir == IF st.rootDir = <<>> THEN Assets ELSE st.rootDir
    IN  [rootDir |-> spxResourceRootDir,
         r |-> IF loadOK THEN st.r
               ELSE addDiagnostics(st.r, toDocumentURI(r.mainSpxFile),
                                   <<ResourceSetDiagnostic>>)]

\* The first arguments of the model: literals and constants with and without
\* value, a string variable, an expression of another type, and one the type
\* checker recorded nothing for.
Args ==
    {Arg(TRUE, "literal", v) : v \in {<<>>, <<97>>}}
    \cup {Arg(TRUE, "const", <<98>>), Arg(TRUE, "var", <<>>),
          Arg(TRUE, "int", <<>>), Arg(FALSE, "int", <<>>)}

InnerCalls(line) ==
    {<<>>, <<CallExpr("run", 1, Arg(TRUE, "literal", <<97>>), line, <<>>)>>,
     <<CallExpr("run", 1, Arg(TRUE, "int", <<>>), line, <<>>)>>}

CallsAt(line) ==
    {CallExpr("run", 0, NoArg, line, <<>>)}
    \cup {CallExpr("run", 1, a, line, <<>>) : a \in Args}
    \cup {CallExpr("run", 1, Arg(h, "int", <<>>), line, i) :
             h \in BOOLEAN, i \in InnerCalls(line) \ {<<>>}}
    \cup {CallExpr("f", 1, Arg(TRUE, "int", <<>>), line, i) : i \in InnerCalls(line)}

RECURSIVE CallLists(_)
CallLists(n) ==
    IF n = 0 THEN {<<>>}
    ELSE LET prev == CallLists(n - 1)
         IN  prev \cup UNION {{Append(q, c) : c \in CallsAt(Len(q) + 1)} :
                                 q \in {p \in prev : Len(p) = n - 1}}

\* A call of inspectForSpxResourceSet on the main file of the snapshot.
InspectForSpxResourceSet(loadOK) ==
    /\ ev.op = "init"
    /\ LET out == inspectForSpxResourceSet(cr, csnap.calls, loadOK)
       IN  /\ cr' = out.r
           /\ ev' = [NoEv EXCEPT !.op = "inspectForSpxResourceSet",
                                 !.calls = csnap.calls, !.rootDir = out.rootDir]
    /\ UNCHANGED <<files, now, workers, budget, cpc, csnap, ctodo, cret, astFile>>

InitRun ==
    /\ files = EmptyFiles
    /\ ServerAtRest
    /\ budget = 0
    /\ cr = [newCompileResult EXCEPT !.mainSpxFile = "main.spx"]
    /\ cpc = "idle"
    /\ \E calls \in CallLists(MaxCalls) : csnap = [calls |-> calls]
    /\ ctodo = {}
    /\ cret = "none"
    /\ astFile = NoAST

NextRun == \E loadOK \in BOOLEAN : InspectForSpxResourceSet(loadOK)

SpecRun == InitRun /\ [][NextRun]_vars

---------------------------------------------------------------------------
(* C22: the resource root directory is the string value of the first       *)
(* argument of the run call of the main file; an argument that is not      *)
(* string-typed gets one error diagnostic "first argument of run must be a *)
(* string literal or constant" and the root is "assets"; without run call, *)
(* without argument or with the empty string the root is "assets" and no   *)
(* such diagnostic is added.                                               *)

\* The call expressions in source order, the calls inside an argument after
\* the call they are an argument of.
RECURSIVE Preorder(_)
Preorder(calls) ==
    IF calls = <<>> THEN <<>>
    ELSE <<Head(calls)>> \o Preorder(Head(calls).inner) \o Preorder(Tail(calls))

RunCalls(calls) == SelectSeq(Preorder(calls), LAMBDA c : c.name = "run")

\* The diagnostics "first argument of run must be ..." stored for the main file.
RunArgDiagnostics ==
    SelectSeq(MapGet(cr.diagnostics, toDocumentURI("main.spx"), <<>>),
              LAMBDA d : d.message = <<114>>)

RootDirOf(call) ==
    IF call.nargs = 0 \/ ~call.arg.hasType THEN Assets
    ELSE IF ~AssignableToString(call.arg) THEN Assets
    ELSE IF StringLitOrConstValue(call.arg).value = <<>> THEN Assets
    ELSE call.arg.value

RunArgDiagnosticsOf(call) ==
    IF call.nargs > 0 /\ call.arg.hasType /\ ~AssignableToString(call.arg)
    THEN <<RunArgDiagnostic(call)>> ELSE <<>>

C22_RootDir ==
    ev.op = "inspectForSpxResourceSet" =>
        LET runs == RunCalls(ev.calls)
        IN  IF runs = <<>>
            THEN ev.rootDir = Assets /\ RunArgDiagnostics = <<>>
            ELSE /\ ev.rootDir = RootDirOf(runs[1])
                 /\ RunArgDiagnostics = RunArgDiagnosticsOf(runs[1])

\* The same for the main files with one run call at most.
C22_SingleRun ==
    (ev.op = "inspectForSpxResourceSet" /\ Len(RunCalls(ev.calls)) <= 1) =>
        C22_RootDir

---------------------------------------------------------------------------
(* The resource index: the resolvers of inspectForSpxResourceRefs          *)
(* (compile.go). Names are byte sequences, types are named by strings.     *)

\* An object of the type checker: its identity, name and type, and the node
\* of the identifier that defines it (goputil.DefIdentFor).
VarObject(id, name, typ, defIdent) ==
    [id |-> id, name |-> name, typ |-> typ, defIdent |-> defIdent]

NoObject == VarObject(0, <<>>, "", 0)

\* An expression: its node and file, its form ("lit", "ident", "call" or
\* "other"), the type recorded for it, what StringLitOrConstValue sees (kind
\* and value), the object of an identifier, the form of the function of a call
\* ("ident", "selector", "other") with the operand of the selector, and, for an
\* identifier on the left of an assignment, the right-hand side assigned to it.
Expr(node, file, form, typ, kind, value, obj) ==
    [node |-> node, file |-> file, form |-> form, typ |-> typ, kind |-> kind,
     value |-> value, obj |-> obj, fun |-> "", x |-> <<>>, rhs |-> <<>>]

\* A resource the resource set holds, and the nil resource.
Resource(name) == [nil |-> FALSE, name |-> name, costumes |-> {}, animations |-> {}]

SpriteResource(name, costumes, animations) ==
    [nil |-> FALSE, name |-> name, costumes |-> costumes, animations |-> animations]

NilResource == [nil |-> TRUE, name |-> <<>>, costumes |-> {}, animations |-> {}]

\* SpxResourceSet: the names of the backdrops, sounds and widgets, and the sprites.
SpxResourceSet(backdrops, sounds, sprites, widgets) ==
    [backdrops |-> backdrops, sounds |-> sounds, sprites |-> sprites,
     widgets |-> widgets]

\* SpxResourceSet.Sprite(name): the sprite of that name, or nil.
Sprite(set, name) ==
    IF \E s \in set.sprites : s.name = name
    THEN CHOOSE s \in set.sprites : s.name = name
    ELSE NilResource

\* A compile result with the index it builds: references, auto-binding sets
\* (objects by identity) and the resource set; spriteTypes are the named types
\* vfs.HasSpriteType holds for in the project of the result.
IndexResult(set, spriteTypes) ==
    [diagnostics |-> <<>>, seen |-> <<>>, hasError |-> FALSE,
     mainSpxFile |-> "main.spx",
     spxResourceRefs |-> <<>>, seenSpxResourceRefs |-> {},
     spxSoundResourceAutoBindings |-> {}, spxSpriteResourceAutoBindings |-> {},
     spxResourceSet |-> set, spriteTypes |-> spriteTypes]

\* The resource IDs: SpxBackdropResourceID{name}, ..., and those of a costume
\* or animation, which name their sprite.
ResourceID(type, sprite, name) == [type |-> type, sprite |-> sprite, name |-> name]

\* RangeForNode(result.proj, expr)
ExprRange(expr) == [start |-> Pos(expr.node, 0), end |-> Pos(expr.node, 1)]

\* "<what> resource name cannot be empty"; what is the first letter(s) of the
\* resource type.
EmptyNameDiagnostic(expr, what) ==
    Diagnostic(SeverityError, ExprRange(expr), <<101>> \o what)

\* "<what> resource <name> not found"
NotFoundDiagnostic(expr, what, name) ==
    Diagnostic(SeverityError, ExprRange(expr), <<110>> \o what \o <<34>> \o name \o <<34>>)

\* SpxResourceRefKindStringLiteral, or ConstantReference for an identifier.
NameRefKind(expr) ==
    IF expr.form = "ident" THEN "constant-reference" ELSE "string-literal"

\* exprTV.Type, or the declared type when there is one.
TypeAt(expr, declaredType) == IF declaredType # "nil" THEN declaredType ELSE expr.typ

\* What a resolver returns, with the compile result it leaves.
Resolved(r, resource) == [r |-> r, resource |-> resource]

inspectSpxBackdropResourceRefAtExpr(r, expr, declaredType) ==
    LET uri == toDocumentURI(expr.file)
        v == StringLitOrConstValue(expr)
        r1 == addSpxResourceRef(r, SpxResourceRef(
                  ResourceID("backdrop", <<>>, v.value), NameRefKind(expr), expr.node))
    IN  IF TypeAt(expr, declaredType) # "BackdropName" \/ ~v.ok
        THEN Resolved(r, NilResource)
        ELSE IF v.value = <<>>
        THEN Resolved(addDiagnostics(r, uri, <<EmptyNameDiagnostic(expr, <<98>>)>>),
                      NilResource)
        ELSE IF v.value \notin r.spxResourceSet.backdrops
        THEN Resolved(addDiagnostics(r1, uri,
                          <<NotFoundDiagnostic(expr, <<98>>, v.value)>>),
                      NilResource)
        ELSE Resolved(r1, Resource(v.value))

\* strings.TrimSuffix(path.Base(filename), ".spx") for the files of the model.
FileSpriteName(file) ==
    CASE file = "a.spx" -> <<97>>
      [] file = "b.spx" -> <<98>>
      [] file = "main.spx" -> <<109, 97, 105, 110>>
      [] OTHER -> <<>>

\* The sprite resolver with the reference recorded only for a sprite the
\* resource set holds.
RECURSIVE inspectSpxSpriteResourceRefAtExprFoundOnly(_, _, _)
inspectSpxSpriteResourceRefAtExprFoundOnly(r, expr, declaredType) ==
    LET uri == toDocumentURI(expr.file)
        typ == TypeAt(expr, declaredType)
        callName == IF expr.form = "call" THEN FileSpriteName(expr.file) ELSE <<>>
        v == StringLitOrConstValue(expr)
        bound == /\ expr.form = "ident" /\ expr.obj # NoObject
                 /\ expr.obj.id \in r.spxSpriteResourceAutoBindings
        name == IF callName # <<>> THEN callName
                ELSE IF typ = "SpriteName" THEN v.value ELSE expr.obj.name
        kind == IF typ = "SpriteName" THEN NameRefKind(expr)
                ELSE IF expr.obj.defIdent = expr.node THEN "auto-binding"
                ELSE "auto-binding-reference"
        found == Sprite(r.spxResourceSet, name)
        r1 == IF callName # <<>> \/ found.nil THEN r
              ELSE addSpxResourceRef(r, SpxResourceRef(
                       ResourceID("sprite", <<>>, name), kind, expr.node))
    IN  IF expr.form = "call" /\ expr.fun = "selector"
        THEN IF expr.x.form # "ident" THEN Resolved(r, NilResource)
             ELSE inspectSpxSpriteResourceRefAtExprFoundOnly(r, expr.x, declaredType)
        ELSE IF expr.form = "call" /\ expr.fun # "ident"
        THEN Resolved(r, NilResource)
        ELSE IF callName = <<>> /\ typ = "SpriteName" /\ ~v.ok
        THEN Resolved(r, NilResource)
        ELSE IF callName = <<>> /\ typ # "SpriteName" /\ ~bound
        THEN Resolved(r, NilResource)
        ELSE IF name = <<>>
        THEN Resolved(addDiagnostics(r, uri, <<EmptyNameDiagnostic(expr, <<112>>)>>),
                      NilResource)
        ELSE IF found.nil
        THEN Resolved(addDiagnostics(r1, uri,
                          <<NotFoundDiagnostic(expr, <<112>>, name)>>),
                      NilResource)
        ELSE Resolved(r1, found)

\* inspectSpxSpriteResourceRefAtExpr: a call names the sprite of its file (or
\* of the operand of its selector); another expression names it by a string
\* value when its type is the sprite name type, by an auto-bound object
\* otherwise.
RECURSIVE inspectSpxSpriteResourceRefAtExpr(_, _, _)
inspectSpxSpriteResourceRefAtExpr(r, expr, declaredType) ==
    LET uri == toDocumentURI(expr.file)
        typ == TypeAt(expr, declaredType)
        callName == IF expr.form = "call" THEN FileSpriteName(expr.file) ELSE <<>>
        v == StringLitOrConstValue(expr)
        bound == /\ expr.form = "ident" /\ expr.obj # NoObject
                 /\ expr.obj.id \in r.spxSpriteResourceAutoBindings
        name == IF callName # <<>> THEN callName
                ELSE IF typ = "SpriteName" THEN v.value ELSE expr.obj.name
        kind == IF typ = "SpriteName" THEN NameRefKind(expr)
                ELSE IF expr.obj.defIdent = expr.node THEN "auto-binding"
                ELSE "auto-binding-reference"
        r1 == IF callName # <<>> THEN r
              ELSE addSpxResourceRef(r, SpxResourceRef(
                       ResourceID("sprite", <<>>, name), kind, expr.node))
        found == Sprite(r.spxResourceSet, name)
    IN  IF expr.form = "call" /\ expr.fun = "selector"
        THEN IF expr.x.form # "ident" THEN Resolved(r, NilResource)
             ELSE inspectSpxSpriteResourceRefAtExpr(r, expr.x, declaredType)
        ELSE IF expr.form = "call" /\ expr.fun # "ident"
        THEN Resolved(r, NilResource)
        ELSE IF callName = <<>> /\ typ = "SpriteName" /\ ~v.ok
        THEN Resolved(r, NilResource)
        ELSE IF callName = <<>> /\ typ # "SpriteName" /\ ~bound
        THEN Resolved(r, NilResource)
        ELSE IF name = <<>>
        THEN Resolved(addDiagnostics(r, uri, <<EmptyNameDiagnostic(expr, <<112>>)>>),
                      NilResource)
        ELSE IF found.nil
        THEN Resolved(addDiagnostics(r1, uri,
                          <<NotFoundDiagnostic(expr, <<112>>, name)>>),
                      NilResource)
        ELSE Resolved(r1, found)

inspectSpxSpriteCostumeResourceRefAtExpr(r, spxSpriteResource, expr, declaredType) ==
    LET uri == toDocumentURI(expr.file)
        v == StringLitOrConstValue(expr)
        r1 == addSpxResourceRef(r, SpxResourceRef(
                  ResourceID("costume", spxSpriteResource.name, v.value),
                  NameRefKind(expr), expr.node))
    IN  IF TypeAt(expr, declaredType) # "SpriteCostumeName" \/ ~v.ok
        THEN Resolved(r, NilResource)
        ELSE IF v.value = <<>>
        THEN Resolved(addDiagnostics(r, uri, <<EmptyNameDiagnostic(expr, <<99>>)>>),
                      NilResource)
        ELSE IF v.value \notin spxSpriteResource.costumes
        THEN Resolved(addDiagnostics(r1, uri,
                          <<NotFoundDiagnostic(expr, <<99>>, v.value)>>),
                      NilResource)
        ELSE Resolved(r1, Resource(v.value))

inspectSpxSpriteAnimationResourceRefAtExpr(r, spxSpriteResource, expr, declaredType) ==
    LET uri == toDocumentURI(expr.file)
        v == StringLitOrConstValue(expr)
        r1 == addSpxResourceRef(r, SpxResourceRef(
                  ResourceID("animation", spxSpriteResource.name, v.value),
                  NameRefKind(expr), expr.node))
    IN  IF TypeAt(expr, declaredType) # "SpriteAnimationName" \/ ~v.ok
        THEN Resolved(r, NilResource)
        ELSE IF v.value = <<>>
        THEN Resolved(addDiagnostics(r, uri, <<EmptyNameDiagnostic(expr, <<97>>)>>),
                      NilResource)
        ELSE IF v.value \notin spxSpriteResource.animations
        THEN Resolved(addDiagnostics(r1, uri,
                          <<NotFoundDiagnostic(expr, <<97>>, v.value)>>),
                      NilResource)
        ELSE Resolved(r1, Resource(v.value))

\* The sound resolver taking any identifier of the sound type for an
\* auto-binding, in the set or not.
inspectSpxSoundResourceRefAtExprUnbound(r, expr, declaredType) ==
    LET uri == toDocumentURI(expr.file)
        typ == TypeAt(expr, declaredType)
        v == StringLitOrConstValue(expr)
        bound == expr.form = "ident" /\ expr.obj # NoObject
        name == IF typ = "SoundName" THEN v.value ELSE expr.obj.name
        kind == IF typ = "SoundName" THEN NameRefKind(expr)
                ELSE IF expr.obj.defIdent = expr.node THEN "auto-binding"
                ELSE "auto-binding-reference"
        r1 == addSpxResourceRef(r, SpxResourceRef(
                  ResourceID("sound", <<>>, name), kind, expr.node))
    IN  IF typ \notin {"SoundName", "Sound"} THEN Resolved(r, NilResource)
        ELSE IF typ = "SoundName" /\ ~v.ok THEN Resolved(r, NilResource)
        ELSE IF typ = "Sound" /\ ~bound THEN Resolved(r, NilResource)
        ELSE IF name = <<>>
        THEN Resolved(addDiagnostics(r, uri, <<EmptyNameDiagnostic(expr, <<115>>)>>),
                      NilResource)
        ELSE IF name \notin r.spxResourceSet.sounds
        THEN Resolved(addDiagnostics(r1, uri,
                          <<NotFoundDiagnostic(expr, <<115>>, name)>>),
                      NilResource)
        ELSE Resolved(r1, Resource(name))

\* inspectSpxSoundResourceRefAtExpr: the sound is named by a string value when
\* the type is the sound name type, by an auto-bound object when it is the
\* sound type.
inspectSpxSoundResourceRefAtExpr(r, expr, declaredType) ==
    LET uri == toDocumentURI(expr.file)
        typ == TypeAt(expr, declaredType)
        v == StringLitOrConstValue(expr)
        bound == /\ expr.form = "ident" /\ expr.obj # NoObject
                 /\ expr.obj.id \in r.spxSoundResourceAutoBindings
        name == IF typ = "SoundName" THEN v.value ELSE expr.obj.name
        kind == IF typ = "SoundName" THEN NameRefKind(expr)
                ELSE IF expr.obj.defIdent = expr.node THEN "auto-binding"
                ELSE "auto-binding-reference"
        r1 == addSpxResourceRef(r, SpxResourceRef(
                  ResourceID("sound", <<>>, name), kind, expr.node))
    IN  IF typ \notin {"SoundName", "Sound"} THEN Resolved(r, NilResource)
        ELSE IF typ = "SoundName" /\ ~v.ok THEN Resolved(r, NilResource)
        ELSE IF typ = "Sound" /\ ~bound THEN Resolved(r, NilResource)
        ELSE IF name = <<>>
        THEN Resolved(addDiagnostics(r, uri, <<EmptyNameDiagnostic(expr, <<115>>)>>),
                      NilResource)
        ELSE IF name \notin r.spxResourceSet.sounds
        THEN Resolved(addDiagnostics(r1, uri,
                          <<NotFoundDiagnostic(expr, <<115>>, name)>>),
                      NilResource)
        ELSE Resolved(r1, Resource(name))

inspectSpxWidgetResourceRefAtExpr(r, expr, declaredType) ==
    LET uri == toDocumentURI(expr.file)
        v == StringLitOrConstValue(expr)
        r1 == addSpxResourceRef(r, SpxResourceRef(
                  ResourceID("widget", <<>>, v.value), NameRefKind(expr), expr.node))
    IN  IF TypeAt(expr, declaredType) # "WidgetName" \/ ~v.ok
        THEN Resolved(r, NilResource)
        ELSE IF v.value = <<>>
        THEN Resolved(addDiagnostics(r, uri, <<EmptyNameDiagnostic(expr, <<119>>)>>),
                      NilResource)
        ELSE IF v.value \notin r.spxResourceSet.widgets
        THEN Resolved(addDiagnostics(r1, uri,
                          <<NotFoundDiagnostic(expr, <<119>>, v.value)>>),
                      NilResource)
        ELSE Resolved(r1, Resource(v.value))

\* inspectSpxResourceRefForTypeAtExpr: an identifier of a name type on the left
\* of an assignment stands for the expression assigned to it; then the
\* resolver of the type is called.
inspectSpxResourceRefForTypeAtExpr(r, expr0, typ, spxSpriteResource) ==
    LET expr == IF /\ expr0.form = "ident"
                   /\ typ \in {"BackdropName", "SpriteName", "SoundName", "WidgetName"}
                   /\ expr0.rhs # <<>>
                THEN expr0.rhs[1] ELSE expr0
    IN  CASE typ = "BackdropName" ->
                inspectSpxBackdropResourceRefAtExpr(r, expr, typ).r
          [] typ \in {"SpriteName", "Sprite"} ->
                inspectSpxSpriteResourceRefAtExpr(r, expr, typ).r
          [] typ = "SpriteCostumeName" ->
                IF spxSpriteResource.nil THEN r
                ELSE inspectSpxSpriteCostumeResourceRefAtExpr(
                         r, spxSpriteResource, expr, typ).r
          [] typ = "SpriteAnimationName" ->
                IF spxSpriteResource.nil THEN r
                ELSE inspectSpxSpriteAnimationResourceRefAtExpr(
                         r, spxSpriteResource, expr, typ).r
          [] typ \in {"SoundName", "Sound"} ->
                inspectSpxSoundResourceRefAtExpr(r, expr, typ).r
          [] typ = "WidgetName" ->
                inspectSpxWidgetResourceRefAtExpr(r, expr, typ).r
          [] OTHER ->
                IF typ \in r.spriteTypes
                THEN inspectSpxSpriteResourceRefAtExpr(r, expr, typ).r
                ELSE r

---------------------------------------------------------------------------
(* The resource index: the loops of inspectForSpxResourceRefs over the     *)
(* tables of the type checker (compile.go).                                *)

\* An entry of typeInfo.Defs: the defining identifier (with its object), the
\* kind of the object, the innermost scope at the identifier ("file" for the
\* scope of its file), whether the declaration stands in the first var block
\* (goputil.IsDefinedInClassFieldsDecl) and the value of its ValueSpec, if any.
DefEntry(ident, objKind, scope, inFirstBlock, value) ==
    [table |-> "defs", ident |-> ident, objKind |-> objKind, scope |-> scope,
     inFirstBlock |-> inFirstBlock, value |-> value]

\* An entry of typeInfo.Uses: the identifier with the object it uses.
UseEntry(ident) == [table |-> "uses", ident |-> ident]

\* An entry of typeInfo.Types: an expression; for a call the type of the
\* receiver of the called function ("" without receiver) and the arguments
\* with the types of their parameters.
TypesEntry(expr, recvType, args) ==
    [table |-> "types", expr |-> expr, recvType |-> recvType, args |-> args]

\* The type is a *types.Named.
IsNamed(typ) == typ \notin {"string", "int", ""}

\* varType.Obj().Name() of the named types a field can share its name with.
TypeObjName(typ) ==
    CASE typ = "d" -> <<100>>
      [] OTHER -> <<83>>

isSpxSoundResourceAutoBinding(r, obj) ==
    obj.typ = "Sound" /\ obj.name \in r.spxResourceSet.sounds

isSpxSpriteResourceAutoBinding(r, obj) ==
    CASE obj.typ = "Sound" -> FALSE
      [] obj.typ = "Sprite" -> ~Sprite(r.spxResourceSet, obj.name).nil
      [] OTHER -> obj.name = TypeObjName(obj.typ) /\ obj.typ \in r.spriteTypes

\* "resources must be defined in the first var block for auto-binding"
FirstVarBlockDiagnostic(ident) ==
    Diagnostic(SeverityWarning, ExprRange(ident), <<118>>)

\* The round of the definitions loop registering the binding of a variable
\* declared outside the first var block next to warning about it.
inspectDefinitionNoContinue(r, d) ==
    LET obj == d.ident.obj
        r1 == IF d.objKind \in {"const", "var"} /\ d.value # <<>>
              THEN inspectSpxResourceRefForTypeAtExpr(r, d.value[1], obj.typ,
                                                      NilResource)
              ELSE r
        isSound == isSpxSoundResourceAutoBinding(r1, obj)
        isSprite == isSpxSpriteResourceAutoBinding(r1, obj)
        r2 == IF d.inFirstBlock THEN r1
              ELSE addDiagnostics(r1, toDocumentURI(d.ident.file),
                                  <<FirstVarBlockDiagnostic(d.ident)>>)
        r3 == IF isSound
              THEN [r2 EXCEPT !.spxSoundResourceAutoBindings = @ \cup {obj.id}]
              ELSE [r2 EXCEPT !.spxSpriteResourceAutoBindings = @ \cup {obj.id}]
    IN  IF d.objKind # "var" \/ ~IsNamed(obj.typ) THEN r1
        ELSE IF d.ident.file # r.mainSpxFile \/ d.scope # "file" THEN r1
        ELSE IF ~isSound /\ ~isSprite THEN r1
        ELSE inspectSpxResourceRefForTypeAtExpr(r3, d.ident, obj.typ, NilResource)

\* One round of the loop over typeInfo.Defs.
inspectDefinition(r, d) ==
    LET obj == d.ident.obj
        r1 == IF d.objKind \in {"const", "var"} /\ d.value # <<>>
              THEN inspectSpxResourceRefForTypeAtExpr(r, d.value[1], obj.typ,
                                                      NilResource)
              ELSE r
        isSound == isSpxSoundResourceAutoBinding(r1, obj)
        isSprite == isSpxSpriteResourceAutoBinding(r1, obj)
        r3 == IF isSound
              THEN [r1 EXCEPT !.spxSoundResourceAutoBindings = @ \cup {obj.id}]
              ELSE [r1 EXCEPT !.spxSpriteResourceAutoBindings = @ \cup {obj.id}]
    IN  IF d.objKind # "var" \/ ~IsNamed(obj.typ) THEN r1
        ELSE IF d.ident.file # r.mainSpxFile \/ d.scope # "file" THEN r1
        ELSE IF ~isSound /\ ~isSprite THEN r1
        ELSE IF ~d.inFirstBlock
        THEN addDiagnostics(r1, toDocumentURI(d.ident.file),
                            <<FirstVarBlockDiagnostic(d.ident)>>)
        ELSE inspectSpxResourceRefForTypeAtExpr(r3, d.ident, obj.typ, NilResource)

\* One round of the loop over typeInfo.Uses.
inspectUse(r, e) ==
    inspectSpxResourceRefForTypeAtExpr(r, e.ident, e.ident.obj.typ, NilResource)

\* The arguments of a call, each inspected for the type of its parameter.
RECURSIVE inspectArgs(_, _, _)
inspectArgs(r, args, spxSpriteResource) ==
    IF args = <<>> THEN r
    ELSE inspectArgs(
             inspectSpxResourceRefForTypeAtExpr(r, Head(args).expr,
                                                Head(args).paramType,
                                                spxSpriteResource),
             Tail(args), spxSpriteResource)

\* One round of the loop over typeInfo.Types.
inspectTypedExpr(r, e) ==
    IF e.expr.form = "call"
    THEN LET s == IF e.recvType \in {"Sprite", "SpriteImpl"}
                  THEN inspectSpxSpriteResourceRefAtExpr(r, e.expr, e.recvType)
                  ELSE Resolved(r, NilResource)
         IN  inspectArgs(s.r, e.args, s.resource)
    ELSE inspectSpxResourceRefForTypeAtExpr(r, e.expr, e.expr.typ, NilResource)

\* One iteration of the range loop over the table cpc names: Go ranges over a
\* map in an order of its own, so any entry not yet visited may come next.
InspectIndexEntry(e) ==
    /\ cpc \in {"defs", "uses", "types"}
    /\ e \in ctodo
    /\ e.table = cpc
    /\ cr' = CASE cpc = "defs" -> inspectDefinition(cr, e)
               [] cpc = "uses" -> inspectUse(cr, e)
               [] cpc = "types" -> inspectTypedExpr(cr, e)
    /\ ctodo' = ctodo \ {e}
    /\ ev' = [NoEv EXCEPT !.op = "inspectForSpxResourceRefs"]
    /\ UNCHANGED <<files, now, workers, budget, cpc, csnap, cret, astFile>>

\* The objects of the model: a sound field a, a sprite field c, a field d of
\* the sprite class d, and a local variable y of the sound type.
SoundA == VarObject(1, <<97>>, "Sound", 1)
SpriteC == VarObject(3, <<99>>, "Sprite", 3)
ClassD == VarObject(4, <<100>>, "d", 4)
LocalY == VarObject(5, <<121>>, "Sound", 5)

Ident(node, file, obj) == Expr(node, file, "ident", obj.typ, "var", <<>>, obj)

\* Where a field is declared: in the first var block of the main file, in a
\* later var block of it, inside a function of it, or in the first var block
\* of a sprite file.
Placements == {"first", "later", "local", "other"}

DefAt(obj, placement) ==
    DefEntry(Ident(obj.defIdent, IF placement = "other" THEN "a.spx" ELSE "main.spx",
                   obj),
             "var", IF placement = "local" THEN "func" ELSE "file",
             placement \in {"first", "other"}, <<>>)

\* `var y Sound = a` inside a function: the value is a use of a.
DefLocalY ==
    DefEntry(Ident(5, "main.spx", LocalY), "var", "func", FALSE,
             <<Ident(15, "main.spx", SoundA)>>)

\* `c.f "x"` with f a method of the sprite type taking a costume name, and
\* the literal "a" where a sound name is expected.
CallOnC ==
    TypesEntry(
        [Expr(20, "main.spx", "call", "", "none", <<>>, NoObject) EXCEPT
            !.fun = "selector", !.x = Ident(13, "main.spx", SpriteC)],
        "Sprite",
        <<[expr |-> Expr(22, "main.spx", "lit", "string", "literal", <<120>>, NoObject),
           paramType |-> "SpriteCostumeName"]>>)

SoundLiteral ==
    TypesEntry(Expr(23, "main.spx", "lit", "SoundName", "literal", <<97>>, NoObject),
               "", <<>>)

\* The uses of the fields: one identifier each.
UsesOf(objs) == {UseEntry(Ident(obj.defIdent + 10, "main.spx", obj)) : obj \in objs}

\* The resource sets: one holding a resource for every field, one without
\* sprites.
ResourceSets ==
    {SpxResourceSet({}, {<<97>>}, {SpriteResource(<<99>>, {<<120>>}, {}),
                                   SpriteResource(<<100>>, {}, {})}, {}),
     SpxResourceSet({}, {<<97>>}, {}, {})}

\* A snapshot: the resource set, the sprite classes and the table entries.
IndexSnapshots ==
    {[set |-> set, spriteTypes |-> {"d"},
      entries |-> {DefAt(SoundA, pa), DefAt(SpriteC, pc), DefAt(ClassD, pd)}
                  \cup UsesOf({SoundA, SpriteC, ClassD}) \cup extra] :
        set \in ResourceSets, pa \in Placements, pc \in Placements,
        pd \in Placements,
        extra \in {{}, {DefLocalY}, {CallOnC, SoundLiteral}}}

\* The range loop over a table ends; the next loop starts.
EndOfIndexTable ==
    /\ cpc \in {"defs", "uses", "types"}
    /\ \A e \in ctodo : e.table # cpc
    /\ cpc' = NextTable(cpc)
    /\ ev' = [NoEv EXCEPT !.op = "inspectForSpxResourceRefs"]
    /\ UNCHANGED <<files, now, workers, budget, cr, csnap, ctodo, cret, astFile>>

InitIndex ==
    /\ files = EmptyFiles
    /\ ServerAtRest
    /\ budget = 0
    /\ csnap \in IndexSnapshots
    /\ ctodo = csnap.entries
    /\ cr = IndexResult(csnap.set, csnap.spriteTypes)
    /\ cpc = "defs"
    /\ cret = "none"
    /\ astFile = NoAST

NextIndex ==
    \/ \E e \in ctodo : InspectIndexEntry(e)
    \/ EndOfIndexTable

SpecIndex == InitIndex /\ [][NextIndex]_vars

---------------------------------------------------------------------------
(* C23: a variable at the outermost scope of the main file that qualifies  *)
(* as a sound or sprite auto-binding but is declared outside the first var *)
(* block gets one warning "resources must be defined in the first var      *)
(* block for auto-binding", is in neither auto-binding set and has no      *)
(* auto-binding reference; one declared in the first var block is in       *)
(* exactly one of the two sets and gets no such warning.                   *)

\* The definitions of the snapshot the statement is about.
QualifyingDefs ==
    {d \in csnap.entries :
        /\ d.table = "defs" /\ d.objKind = "var"
        /\ d.ident.file = "main.spx" /\ d.scope = "file"
        /\ \/ isSpxSoundResourceAutoBinding(cr, d.ident.obj)
           \/ isSpxSpriteResourceAutoBinding(cr, d.ident.obj)}

\* The warnings stored for the identifier.
FirstVarBlockWarnings(ident) ==
    SelectSeq(MapGet(cr.diagnostics, toDocumentURI(ident.file), <<>>),
              LAMBDA diag : diag = FirstVarBlockDiagnostic(ident))

AutoBindingKinds == {"auto-binding", "auto-binding-reference"}

\* The nodes of the identifiers of the snapshot that denote obj.
RECURSIVE ExprsOf(_)
ExprsOf(e) ==
    {e} \cup (IF e.x = <<>> THEN {} ELSE ExprsOf(e.x))
        \cup (IF e.rhs = <<>> THEN {} ELSE ExprsOf(e.rhs[1]))

SnapshotExprs ==
    UNION {CASE e.table = "defs" ->
                  ExprsOf(e.ident)
                      \cup (IF e.value = <<>> THEN {} ELSE ExprsOf(e.value[1]))
             [] e.table = "uses" -> ExprsOf(e.ident)
             [] e.table = "types" ->
                  ExprsOf(e.expr)
                      \cup UNION {ExprsOf(e.args[k].expr) : k \in DOMAIN e.args} :
           e \in csnap.entries}

SnapshotIdents == {e \in SnapshotExprs : e.form = "ident"}

AutoBindingRefsTo(obj) ==
    {k \in DOMAIN cr.spxResourceRefs :
        /\ cr.spxResourceRefs[k].kind \in AutoBindingKinds
        /\ \E i \in SnapshotIdents :
              i.node = cr.spxResourceRefs[k].node /\ i.obj.id = obj.id}

C23_FirstVarBlock ==
    cpc = "built" =>
        \A d \in QualifyingDefs :
            LET obj == d.ident.obj
                inSound == obj.id \in cr.spxSoundResourceAutoBindings
                inSprite == obj.id \in cr.spxSpriteResourceAutoBindings
            IN  IF d.inFirstBlock
                THEN /\ inSound # inSprite
                     /\ FirstVarBlockWarnings(d.ident) = <<>>
                ELSE /\ Len(FirstVarBlockWarnings(d.ident)) = 1
                     /\ ~inSound /\ ~inSprite
                     /\ AutoBindingRefsTo(obj) = {}

\* The index is built for a main file with a qualifying field of the first
\* var block, which is bound and referred to, and a qualifying field of a
\* later block, which is used too.
C23_Witness ==
    /\ cpc = "built"
    /\ \E d \in QualifyingDefs :
          d.inFirstBlock /\ Cardinality(AutoBindingRefsTo(d.ident.obj)) >= 2
    /\ \E d \in QualifyingDefs :
          /\ ~d.inFirstBlock
          /\ Len(FirstVarBlockWarnings(d.ident)) = 1
          /\ \E u \in csnap.entries : u.table = "uses" /\ u.ident.obj = d.ident.obj

---------------------------------------------------------------------------
(* C24: in a compile result every resource reference of kind auto-binding  *)
(* or auto-binding-reference has as node an identifier whose object is in  *)
(* the sprite auto-binding set when the ID is a sprite ID and in the sound *)
(* auto-binding set when it is a sound ID, and its kind is auto-binding    *)
(* exactly when the node is the defining identifier of the object.         *)

C24_AutoBindingRefs ==
    \A k \in DOMAIN cr.spxResourceRefs :
        LET ref == cr.spxResourceRefs[k]
        IN  ref.kind \in AutoBindingKinds =>
                /\ ref.id.type \in {"sprite", "sound"}
                /\ \E i \in SnapshotIdents :
                      /\ i.node = ref.node
                      /\ ref.id.name = i.obj.name
                      /\ ref.id.type = "sprite" =>
                            i.obj.id \in cr.spxSpriteResourceAutoBindings
                      /\ ref.id.type = "sound" =>
                            i.obj.id \in cr.spxSoundResourceAutoBindings
                      /\ (ref.kind = "auto-binding") <=> (i.obj.defIdent = i.node)

\* The result holds an auto-binding and an auto-binding reference of a sound
\* and of a sprite.
C24_Witness ==
    /\ cpc = "built"
    /\ \A t \in {"sprite", "sound"}, kd \in AutoBindingKinds :
          \E k \in DOMAIN cr.spxResourceRefs :
              cr.spxResourceRefs[k].id.type = t /\ cr.spxResourceRefs[k].kind = kd

---------------------------------------------------------------------------
(* The specification of one call of a name resolver on an expression.      *)

Resolvers ==
    {"backdrop", "sprite", "sound", "widget", "sprite costume", "sprite animation"}

\* The name type each resolver resolves.
NameType(resolver) ==
    CASE resolver = "backdrop" -> "BackdropName"
      [] resolver = "sprite" -> "SpriteName"
      [] resolver = "sound" -> "SoundName"
      [] resolver = "widget" -> "WidgetName"
      [] resolver = "sprite costume" -> "SpriteCostumeName"
      [] resolver = "sprite animation" -> "SpriteAnimationName"

\* The sprite the costume and animation resolvers are called with.
SpriteS == SpriteResource(<<115>>, {<<97>>}, {<<97>>})

\* The call of the resolver.
Resolve(r, resolver, expr, declaredType) ==
    CASE resolver = "backdrop" ->
            inspectSpxBackdropResourceRefAtExpr(r, expr, declaredType)
      [] resolver = "sprite" ->
            inspectSpxSpriteResourceRefAtExpr(r, expr, declaredType)
      [] resolver = "sound" ->
            inspectSpxSoundResourceRefAtExpr(r, expr, declaredType)
      [] resolver = "widget" ->
            inspectSpxWidgetResourceRefAtExpr(r, expr, declaredType)
      [] resolver = "sprite costume" ->
            inspectSpxSpriteCostumeResourceRefAtExpr(r, SpriteS, expr, declaredType)
      [] resolver = "sprite animation" ->
            inspectSpxSpriteAnimationResourceRefAtExpr(r, SpriteS, expr, declaredType)

\* The expressions: a literal, an identifier of a constant and an identifier
\* of a variable, with the empty name, a name the resource set holds (a) and
\* one it does not hold (b), of the type typ.
NamedExprs(typ) ==
    {Expr(1, "main.spx", "lit", typ, "literal", v, NoObject) :
        v \in {<<>>, <<97>>, <<98>>}}
    \cup {Expr(2, "main.spx", "ident", typ, "const", v,
               VarObject(2, <<107>>, typ, 9)) : v \in {<<>>, <<97>>, <<98>>}}
    \cup {Expr(3, "main.spx", "ident", typ, "var", <<>>,
               VarObject(3, <<118>>, typ, 8))}

ResolveAtExpr(resolver, expr, declaredType) ==
    /\ ev.op = "init"
    /\ LET out == Resolve(cr, resolver, expr, declaredType)
       IN  /\ cr' = out.r
           /\ ev' = [NoEv EXCEPT !.op = "resolve", !.method = resolver,
                                 !.expr = <<expr>>, !.declaredType = declaredType,
                                 !.resource = <<out.resource>>]
    /\ UNCHANGED <<files, now, workers, budget, cpc, csnap, ctodo, cret, astFile>>

InitResolve ==
    /\ files = EmptyFiles
    /\ ServerAtRest
    /\ budget = 0
    /\ cr = IndexResult(SpxResourceSet({<<97>>}, {<<97>>},
                                       {SpriteResource(<<97>>, {}, {})}, {<<97>>}),
                        {})
    /\ cpc = "idle" /\ csnap = <<>> /\ ctodo = {} /\ cret = "none"
    /\ astFile = NoAST

NextResolve ==
    \E resolver \in Resolvers, typ \in {"string", "name"},
       declaredType \in {"nil", "name", "int"} :
        \E expr \in NamedExprs(IF typ = "name" THEN NameType(resolver) ELSE typ) :
            ResolveAtExpr(resolver, expr,
                          IF declaredType = "name" THEN NameType(resolver)
                          ELSE declaredType)

SpecResolve == InitResolve /\ [][NextResolve]_vars

---------------------------------------------------------------------------
(* C25: for each name-typed resolver (backdrop, sprite, sound, widget,     *)
(* sprite costume, sprite animation) an expression whose string value is   *)
(* not empty and not in the resource set yields a recorded reference (kind *)
(* string-literal for a literal, constant-reference for an identifier of a *)
(* constant) and one "not found" error diagnostic at the expression, and   *)
(* the resolver returns no resource; an expression with the empty value    *)
(* yields the "name cannot be empty" error diagnostic only.                *)

\* The resolver was called on an expression of its name type with a string
\* value.
Resolves ==
    /\ ev.op = "resolve"
    /\ TypeAt(ev.expr[1], ev.declaredType) = NameType(ev.method)
    /\ ev.expr[1].kind \in {"literal", "const"}

\* The resource set (or the sprite) holds the name.
Holds(resolver, name) == name = <<97>>

MainDiagnostics == MapGet(cr.diagnostics, toDocumentURI("main.spx"), <<>>)

C25_MissingResource ==
    Resolves =>
        LET expr == ev.expr[1]
            name == expr.value
        IN  /\ (name # <<>> /\ ~Holds(ev.method, name)) =>
                  /\ Len(cr.spxResourceRefs) = 1
                  /\ cr.spxResourceRefs[1].node = expr.node
                  /\ cr.spxResourceRefs[1].id.name = name
                  /\ cr.spxResourceRefs[1].kind =
                        IF expr.kind = "literal" THEN "string-literal"
                        ELSE "constant-reference"
                  /\ Len(MainDiagnostics) = 1
                  /\ MainDiagnostics[1].severity = SeverityError
                  /\ MainDiagnostics[1].range = ExprRange(expr)
                  /\ MainDiagnostics[1].message[1] = 110
                  /\ ev.resource[1].nil
            /\ name = <<>> =>
                  /\ cr.spxResourceRefs = <<>>
                  /\ Len(MainDiagnostics) = 1
                  /\ MainDiagnostics[1].severity = SeverityError
                  /\ MainDiagnostics[1].range = ExprRange(expr)
                  /\ MainDiagnostics[1].message[1] = 101
                  /\ ev.resource[1].nil

\* A resolver has recorded the reference of a constant whose value names no
\* resource, with the diagnostic.
C25_Witness ==
    /\ Resolves
    /\ ev.expr[1].value = <<98>>
    /\ ev.expr[1].kind = "const"
    /\ Len(cr.spxResourceRefs) = 1
    /\ Len(MainDiagnostics) = 1

---------------------------------------------------------------------------
(* C26: for every file root and every pair start/end, in either order,     *)
(* inside or outside the file, PathEnclosingInterval returns a path that   *)
(* is not empty and ends with the root, in which every element is a child  *)
(* of the element after it and no token node appears; the result is the    *)
(* same with start and end exchanged; and for an interval that lies wholly *)
(* outside the file the path is the root alone with exact = false.         *)

Enclosed == ev.op = "PathEnclosingInterval"

\* a is one of the children of b.
IsChildOf(a, b) == \E k \in DOMAIN b.children : b.children[k] = a

\* The path goes from a node up to the root through parents, without tokens.
WellFormedPath(path, root) ==
    /\ path # <<>>
    /\ path[Len(path)] = root
    /\ \A k \in 1..Len(path) - 1 : IsChildOf(path[k], path[k + 1])
    /\ \A k \in 1..Len(path) : ~path[k].isToken

\* The interval of the query, start before end and an empty one widened to
\* the character after it, has no position in common with the file.
WhollyOutside(root, a, b) ==
    LET start == Min(a, b)
        end == IF a = b THEN a + 1 ELSE IF a < b THEN b ELSE a
    IN  end <= root.pos \/ start >= root.end

C26_PathShape ==
    Enclosed =>
        /\ WellFormedPath(ev.path, astFile)
        /\ PathEnclosingInterval(astFile, ev.end, ev.start)
              = [path |-> ev.path, exact |-> ev.exact]
        /\ WhollyOutside(astFile, ev.start, ev.end) =>
              ev.path = <<astFile>> /\ ~ev.exact

\* The same without the intervals that end where a file without package
\* clause starts.
C26_PathShapeInside ==
    (Enclosed /\ ~(/\ ~astFile.hasPkg
                   /\ Min(ev.start, ev.end) < astFile.pos
                   /\ ev.start + ev.end - Min(ev.start, ev.end) = astFile.pos)) =>
        C26_PathShape

---------------------------------------------------------------------------
(* textDocument/documentHighlight (highlight.go).                          *)

\* A node of the path PathEnclosingInterval returns for an identifier: its
\* type, the token of an assignment ("ASSIGN", "DEFINE" or "OTHER" for a
\* compound one) and what the identifier is to it: "name", "label", "lhs",
\* "rhs", "x", "key", "value", "operand", or "" when the identifier is none of
\* the fields the code compares it with.
PathNode(type, tok, role) == [type |-> type, tok |-> tok, role |-> role]

IdentNode == PathNode("Ident", "", "")

FileNode == PathNode("File", "", "")

\* The kinds of a highlight.
Text == 1

Read == 2

Write == 3

\* The switch over the type of a parent, for the identifier of the path.
ParentKind(p, kind) ==
    CASE p.type \in {"ValueSpec", "Field", "FuncDecl", "TypeSpec"} ->
            IF p.role = "name" THEN Write ELSE kind
      [] p.type = "LabeledStmt" -> IF p.role = "label" THEN Write ELSE kind
      [] p.type = "AssignStmt" ->
            IF p.tok = "ASSIGN"
            THEN IF p.role = "lhs" THEN Write
                 ELSE IF p.role = "rhs" THEN Read ELSE kind
            ELSE IF p.tok = "DEFINE"
            THEN IF p.role = "lhs" THEN Write ELSE kind
            ELSE Write
      [] p.type = "IncDecStmt" -> IF p.role = "x" THEN Write ELSE kind
      [] p.type = "RangeStmt" ->
            IF p.role = "x" THEN Read
            ELSE IF p.role \in {"key", "value"} THEN Write ELSE kind
      [] p.type = "TypeSwitchStmt" -> IF p.role = "lhs" THEN Write ELSE kind
      [] p.type \in {"BinaryExpr", "UnaryExpr", "CallExpr", "CompositeLit",
                     "IndexExpr", "ReturnStmt", "SendStmt"} -> Read
      [] p.type = "KeyValueExpr" ->
            IF p.role \in {"key", "value"} THEN Read ELSE kind
      [] p.type = "SelectorExpr" -> IF p.role = "x" THEN Read ELSE kind
      [] OTHER -> kind

\* The loop over slices.Backward(path[:len(path)-1]): from the element before
\* the file down to path[0], left as soon as a parent has set the kind.
RECURSIVE highlightKindFrom(_, _)
highlightKindFrom(path, i) ==
    IF i < 1 THEN Text
    ELSE LET kind == ParentKind(path[i], Text)
         IN  IF kind # Text THEN kind ELSE highlightKindFrom(path, i - 1)

\* The highlights of one occurrence of the target object whose path is path.
highlightsOf(path) ==
    IF Len(path) < 2 THEN <<>>
    ELSE <<[kind |-> highlightKindFrom(path, Len(path) - 1)]>>

\* The constructs that hold an identifier directly, innermost first after the
\* identifier: declared names, the sides of assignments, operands.
Governing ==
    {<<PathNode("ValueSpec", "", r), PathNode("GenDecl", "", ""),
       PathNode("DeclStmt", "", "")>> : r \in {"name", ""}}
    \cup {<<PathNode("TypeSpec", "", "name"), PathNode("GenDecl", "", ""),
            PathNode("DeclStmt", "", "")>>}
    \cup {<<PathNode("LabeledStmt", "", "label")>>}
    \cup {<<PathNode("AssignStmt", t, r)>> :
             t \in {"ASSIGN", "DEFINE", "OTHER"}, r \in {"lhs", "rhs"}}
    \cup {<<PathNode("AssignStmt", "DEFINE", "lhs"),
            PathNode("TypeSwitchStmt", "", "lhs")>>}
    \cup {<<PathNode("IncDecStmt", "", "x")>>}
    \cup {<<PathNode("RangeStmt", "", r)>> : r \in {"x", "key", "value"}}
    \cup {<<PathNode(t, "", "operand"), PathNode("ExprStmt", "", "")>> :
             t \in {"BinaryExpr", "UnaryExpr", "CallExpr", "CompositeLit",
                    "IndexExpr"}}
    \cup {<<PathNode(t, "", "operand")>> : t \in {"ReturnStmt", "SendStmt"}}
    \cup {<<PathNode("KeyValueExpr", "", r), PathNode("CompositeLit", "", ""),
            PathNode("ExprStmt", "", "")>> : r \in {"key", "value"}}
    \cup {<<PathNode("SelectorExpr", "", r), PathNode("ExprStmt", "", "")>> :
             r \in {"x", "sel"}}
    \cup {<<PathNode("ExprStmt", "", "")>>, <<PathNode("IfStmt", "", "")>>,
          <<PathNode("ParenExpr", "", ""), PathNode("ExprStmt", "", "")>>}

\* What encloses the statement inside the body of its function, innermost
\* first: a lambda that is the argument of a call, is returned, or is
\* assigned, or a block.
Wrappers ==
    {<<PathNode("BlockStmt", "", ""), PathNode("FuncLit", "", ""),
       PathNode("CallExpr", "", ""), PathNode("ExprStmt", "", "")>>,
     <<PathNode("BlockStmt", "", ""), PathNode("FuncLit", "", ""),
       PathNode("ReturnStmt", "", "")>>,
     <<PathNode("BlockStmt", "", ""), PathNode("FuncLit", "", ""),
       PathNode("AssignStmt", "ASSIGN", "")>>,
     <<PathNode("BlockStmt", "", ""), PathNode("IfStmt", "", "")>>}

RECURSIVE WrapperLists(_)
WrapperLists(n) ==
    IF n = 0 THEN {<<>>}
    ELSE LET prev == WrapperLists(n - 1)
         IN  prev \cup {q \o w : q \in {p \in prev : Len(p) > 0 \/ n = 1},
                                 w \in Wrappers}

\* The paths of the identifiers inside the body of a function, and those of
\* the names declared at the top of the file.
HighlightPaths ==
    {<<IdentNode>> \o g \o w
        \o <<PathNode("BlockStmt", "", ""), PathNode("FuncDecl", "", ""), FileNode>> :
        g \in Governing, w \in WrapperLists(MaxWrappers)}
    \cup {<<IdentNode, PathNode("FuncDecl", "", "name"), FileNode>>,
          <<IdentNode, PathNode("ValueSpec", "", "name"),
            PathNode("GenDecl", "", ""), FileNode>>,
          <<IdentNode, PathNode("TypeSpec", "", "name"),
            PathNode("GenDecl", "", ""), FileNode>>,
          <<IdentNode, PathNode("Field", "", "name"), PathNode("FieldList", "", ""),
            PathNode("FuncType", "", ""), PathNode("FuncDecl", "", ""), FileNode>>}

\* The callback of gopast.Inspect on an occurrence of the target object.
DocumentHighlight ==
    /\ ev.op = "init"
    /\ ev' = [NoEv EXCEPT !.op = "textDocument/documentHighlight",
                          !.path = csnap.path,
                          !.highlights = highlightsOf(csnap.path)]
    /\ UNCHANGED <<files, now, workers, budget, cr, cpc, csnap, ctodo, cret,
                   astFile>>

InitHighlight ==
    /\ files = EmptyFiles
    /\ ServerAtRest
    /\ budget = 0
    /\ cr = newCompileResult
    /\ cpc = "idle"
    /\ \E path \in HighlightPaths : csnap = [path |-> path]
    /\ ctodo = {}
    /\ cret = "none"
    /\ astFile = NoAST

NextHighlight == DocumentHighlight

SpecHighlight == InitHighlight /\ [][NextHighlight]_vars

---------------------------------------------------------------------------
(* C27: every occurrence of the target object gets exactly one highlight,  *)
(* of kind Write when the identifier is a declared name or the direct      *)
(* left-hand side of an assignment, define, compound assignment or         *)
(* inc/dec, Read when it is a direct right-hand side of an assignment or a *)
(* direct operand of a Read construct, Text when no governing parent       *)
(* matches; the construct that directly governs the identifier decides,    *)
(* whatever encloses that construct.                                       *)

\* The kinds the statement allows for an identifier whose governing
\* constructs start with gov, the parent of the identifier.
GoverningKinds(path) ==
    LET gov == path[2]
    IN  CASE gov.role \in {"name", "label", "lhs", "key", "value"}
                /\ gov.type # "KeyValueExpr" -> {Write}
          [] gov.type = "IncDecStmt" /\ gov.role = "x" -> {Write}
          [] gov.type = "AssignStmt" /\ gov.role = "rhs" ->
                IF gov.tok = "ASSIGN" THEN {Read} ELSE {Read, Text}
          [] gov.type = "KeyValueExpr" /\ gov.role \in {"key", "value"} -> {Read}
          [] gov.role \in {"operand", "x"} -> {Read}
          [] OTHER -> {Text}

C27_HighlightKind ==
    ev.op = "textDocument/documentHighlight" =>
        /\ Len(ev.highlights) = 1
        /\ ev.highlights[1].kind \in GoverningKinds(ev.path)

\* The same for the identifiers that no call, return statement or compound
\* assignment encloses from further out.
C27_NotEnclosed ==
    (/\ ev.op = "textDocument/documentHighlight"
     /\ \A k \in 3..Len(ev.path) :
           /\ ev.path[k].type \notin {"CallExpr", "ReturnStmt", "CompositeLit"}
     /\ ~(ev.path[2].type = "AssignStmt" /\ ev.path[2].tok = "OTHER"
          /\ ev.path[2].role = "rhs")) =>
        C27_HighlightKind

---------------------------------------------------------------------------
(* walkStruct (util.go).                                                   *)

\* A member of a struct: a field (embedded or not) or a method. pkgMain says
\* that the member is defined in the main package.
Member(name, kind, pkgMain, embedded, type) ==
    [name |-> name, kind |-> kind, pkgMain |-> pkgMain, embedded |-> embedded,
     type |-> type]

\* A named type: its name, whether it is defined in the main package, whether
\* its underlying type is a struct, whether it is spx's Game or SpriteImpl,
\* the names of its fields, the named types it embeds (as the last fields, the
\* type under the pointer if there is one) and the names of its methods.
Named(name, pkgMain, struct, spxBase, fields, embeds, methods) ==
    [name |-> name, pkgMain |-> pkgMain, struct |-> struct, spxBase |-> spxBase,
     fields |-> fields, embeds |-> embeds, methods |-> methods]

\* types.Object.Exported: the name starts with an upper-case letter.
Exported(name) == Len(name) > 0 /\ name[1] \in 65..90

isExportedOrMainPkgObject(obj) == Exported(obj.name) \/ obj.pkgMain

\* st.Field(i) for every i, and named.Method(i) for every i.
FieldsOf(t) ==
    [i \in 1..Len(t.fields) |-> Member(t.fields[i], "field", t.pkgMain, FALSE, <<>>)]
    \o [i \in 1..Len(t.embeds) |->
            Member(t.embeds[i], "field", t.pkgMain, TRUE, t.embeds[i])]

MethodsOf(t) ==
    [i \in 1..Len(t.methods) |-> Member(t.methods[i], "method", t.pkgMain, FALSE, <<>>)]

\* The state of a walk: the maps walked and seenMembers, the calls of onMember
\* made so far with what each returned, the named types walk went into, and
\* whether the walk goes on.
NewWalk ==
    [walked |-> {}, seenMembers |-> {}, members |-> <<>>, returns |-> <<>>,
     visits |-> <<>>, ok |-> TRUE]

\* onMember returns false on its stopAt-th call (never when stopAt is 0).
onMember(st, stopAt) == Len(st.members) + 1 # stopAt

\* One of the two loops over the members of a struct, which marks no name.
RECURSIVE walkMembersUnseen(_, _, _, _, _, _)
walkMembersUnseen(st, members, i, owner, selector, stopAt) ==
    IF i > Len(members) THEN st
    ELSE IF ~isExportedOrMainPkgObject(members[i])
    THEN walkMembersUnseen(st, members, i + 1, owner, selector, stopAt)
    ELSE LET ret == onMember(st, stopAt)
             st1 == [st EXCEPT
                        !.members = Append(@, [name |-> members[i].name,
                                               kind |-> members[i].kind,
                                               pkgMain |-> members[i].pkgMain,
                                               owner |-> owner,
                                               selector |-> selector]),
                        !.returns = Append(@, ret),
                        !.ok = ret]
         IN  IF ~ret THEN st1
             ELSE walkMembersUnseen(st1, members, i + 1, owner, selector, stopAt)

\* One of the two loops over the members of a struct (fields, then methods).
RECURSIVE walkMembers(_, _, _, _, _, _)
walkMembers(st, members, i, owner, selector, stopAt) ==
    IF i > Len(members) THEN st
    ELSE IF members[i].name \in st.seenMembers
            \/ ~isExportedOrMainPkgObject(members[i])
    THEN walkMembers(st, members, i + 1, owner, selector, stopAt)
    ELSE LET ret == onMember(st, stopAt)
             st1 == [st EXCEPT
                        !.seenMembers = @ \cup {members[i].name},
                        !.members = Append(@, [name |-> members[i].name,
                                               kind |-> members[i].kind,
                                               pkgMain |-> members[i].pkgMain,
                                               owner |-> owner,
                                               selector |-> selector]),
                        !.returns = Append(@, ret),
                        !.ok = ret]
         IN  IF ~ret THEN st1
             ELSE walkMembers(st1, members, i + 1, owner, selector, stopAt)

\* The loop over namedPath that chooses the selector.
RECURSIVE selectorOf(_, _, _, _)
selectorOf(types, namedPath, i, selector) ==
    IF i > Len(namedPath) THEN selector
    ELSE LET named == types[namedPath[i]]
         IN  IF ~isExportedOrMainPkgObject(named) THEN selector
             ELSE IF named.spxBase THEN named.name
             ELSE selectorOf(types, namedPath, i + 1, named.name)

RECURSIVE walk(_, _, _, _, _)
RECURSIVE walkEmbedded(_, _, _, _, _, _)

\* The closure walk of walkStruct; the ok field of the result is what it
\* returns.
walk(types, st, name, namedPath, stopAt) ==
    IF name \in st.walked THEN [st EXCEPT !.ok = TRUE]
    ELSE LET named == types[name]
             st0 == [st EXCEPT !.walked = @ \cup {name},
                               !.visits = Append(@, name)]
         IN  IF ~named.struct THEN [st0 EXCEPT !.ok = TRUE]
             ELSE LET selector == selectorOf(types, namedPath, 1, name)
                      st1 == walkMembers(st0, FieldsOf(named), 1, name,
                                         selector, stopAt)
                      st2 == walkMembers(st1, MethodsOf(named), 1, name,
                                         selector, stopAt)
                  IN  IF ~st1.ok THEN st1
                      ELSE IF ~st2.ok THEN st2
                      ELSE walkEmbedded(types, st2, FieldsOf(named), 1,
                                        namedPath, stopAt)

\* The third loop of walk, over the embedded fields of named struct type.
walkEmbedded(types, st, fields, i, namedPath, stopAt) ==
    IF i > Len(fields) THEN [st EXCEPT !.ok = TRUE]
    ELSE IF ~fields[i].embedded \/ ~types[fields[i].type].struct
    THEN walkEmbedded(types, st, fields, i + 1, namedPath, stopAt)
    ELSE LET st1 == walk(types, st, fields[i].type,
                         Append(namedPath, fields[i].type), stopAt)
         IN  IF ~st1.ok THEN st1
             ELSE walkEmbedded(types, st1, fields, i + 1, namedPath, stopAt)

walkStruct(types, named, stopAt) == walk(types, NewWalk, named, <<named>>, stopAt)

\* The named types of the inputs: A and B exported, c not.
TypeNames == {<<65>>, <<66>>, <<99>>}

\* Sequences without repetition of at most n type names.
RECURSIVE EmbedLists(_)
EmbedLists(n) ==
    IF n = 0 THEN {<<>>}
    ELSE LET prev == EmbedLists(n - 1)
         IN  prev \cup {Append(q, t) : q \in {p \in prev : Len(p) = n - 1},
                                       t \in TypeNames}

NoRepeat(q) == \A i, j \in 1..Len(q) : q[i] = q[j] => i = j

\* The fields and methods of the structs of the inputs: Y is exported, x and
\* m are not.
Layouts ==
    {[fields |-> <<<<89>>>>, methods |-> <<<<109>>>>],
     [fields |-> <<<<120>>>>, methods |-> <<<<89>>>>]}

\* The declarations of one named type: a struct with one of the layouts and
\* some embedded types, or a type that is no struct. B outside the main
\* package stands for spx's Game.
NamedTypes(name, pkgMain) ==
    {Named(name, pkgMain, TRUE, ~pkgMain /\ name = <<66>>, l.fields, e, l.methods) :
        l \in Layouts, e \in {q \in EmbedLists(MaxEmbeds) : NoRepeat(q)}}
    \cup {Named(name, pkgMain, FALSE, FALSE, <<>>, <<>>, <<<<89>>>>)}

\* Which of the types are in the main package: all, A alone, or none.
MainPkgs ==
    {[n \in TypeNames |-> TRUE], [n \in TypeNames |-> n = <<65>>],
     [n \in TypeNames |-> FALSE]}

\* The declarations of the three types together.
TypeGraph(a, b, c) ==
    [n \in TypeNames |-> IF n = <<65>> THEN a ELSE IF n = <<66>> THEN b ELSE c]

\* The main package is imported by no package: a type outside the main
\* package embeds no type of the main package.
ImportsAllowed(g) ==
    \A n \in TypeNames :
        ~g[n].pkgMain => \A i \in 1..Len(g[n].embeds) : ~g[g[n].embeds[i]].pkgMain

WalkStruct(stopAt) ==
    /\ ev.op = "init"
    /\ LET st == walkStruct(csnap.types, <<65>>, stopAt)
       IN  ev' = [NoEv EXCEPT !.op = "walkStruct",
                              !.types = <<csnap.types>>,
                              !.members = st.members,
                              !.visits = st.visits,
                              !.returns = st.returns]
    /\ UNCHANGED <<files, now, workers, budget, cr, cpc, csnap, ctodo, cret,
                   astFile>>

InitWalk ==
    /\ files = EmptyFiles
    /\ ServerAtRest
    /\ budget = 0
    /\ cr = newCompileResult
    /\ cpc = "idle"
    /\ \E m \in MainPkgs :
          \E a \in NamedTypes(<<65>>, m[<<65>>]), b \in NamedTypes(<<66>>, m[<<66>>]),
             c \in NamedTypes(<<99>>, m[<<99>>]) :
              /\ ImportsAllowed(TypeGraph(a, b, c))
              /\ csnap = [types |-> TypeGraph(a, b, c)]
    /\ ctodo = {}
    /\ cret = "none"
    /\ astFile = NoAST

NextWalk == \E stopAt \in 0..MaxStop : WalkStruct(stopAt)

SpecWalk == InitWalk /\ [][NextWalk]_vars

---------------------------------------------------------------------------
(* C28: walkStruct terminates on every embedding graph, cyclic ones        *)
(* included, and goes into each named struct at most once; it reports no   *)
(* member name twice, a member of an outer struct hiding those of the same *)
(* name in embedded structs; it reports the fields of a struct before its  *)
(* methods and both before any member of its embedded structs, which it    *)
(* takes depth-first in field order; it never reports a member that is     *)
(* neither exported nor in the main package; and it calls onMember no more *)
(* once onMember has returned false.                                       *)

\* The structs reachable from the named types of path, depth-first in field
\* order, each once.
RECURSIVE DepthFirst(_, _, _)
DepthFirst(types, todo, done) ==
    IF todo = <<>> THEN done
    ELSE IF \E i \in 1..Len(done) : done[i] = Head(todo)
    THEN DepthFirst(types, Tail(todo), done)
    ELSE LET t == types[Head(todo)]
             embedded == SelectSeq(t.embeds, LAMBDA n : types[n].struct)
         IN  DepthFirst(types, embedded \o Tail(todo), Append(done, Head(todo)))

IsPrefix(p, q) == Len(p) <= Len(q) /\ \A i \in 1..Len(p) : p[i] = q[i]

VisitIndex(visits, name) == CHOOSE i \in 1..Len(visits) : visits[i] = name

Reportable(types, name) ==
    {m.name : m \in {FieldsOf(types[name])[i] : i \in 1..Len(FieldsOf(types[name]))}
                   \cup {MethodsOf(types[name])[i] :
                            i \in 1..Len(MethodsOf(types[name]))}}

C28_WalkStruct ==
    ev.op = "walkStruct" =>
        LET types == ev.types[1]
            out == ev.members
            visits == ev.visits
        IN  /\ NoRepeat(visits)
            /\ IsPrefix(visits, DepthFirst(types, <<<<65>>>>, <<>>))
            /\ \A i, j \in 1..Len(out) : out[i].name = out[j].name => i = j
            /\ \A i \in 1..Len(out) :
                  /\ Exported(out[i].name) \/ out[i].pkgMain
                  /\ \E k \in 1..Len(visits) : visits[k] = out[i].owner
                  /\ out[i].name \in Reportable(types, out[i].owner)
                  /\ \A k \in 1..Len(visits) :
                        k < VisitIndex(visits, out[i].owner) =>
                            \/ out[i].name \notin Reportable(types, visits[k])
                            \/ ~(Exported(out[i].name) \/ types[visits[k]].pkgMain)
            /\ \A i, j \in 1..Len(out) :
                  i < j =>
                     /\ VisitIndex(visits, out[i].owner)
                           <= VisitIndex(visits, out[j].owner)
                     /\ out[i].owner = out[j].owner =>
                           ~(out[i].kind = "method" /\ out[j].kind = "field")
            /\ Len(ev.returns) = Len(out)
            /\ \A i \in 1..Len(ev.returns) : ~ev.returns[i] => i = Len(ev.returns)

\* A walk over a cycle of two structs in which a member of the inner struct is
\* hidden by one of the outer struct and onMember has returned false.
C28_Witness ==
    /\ ev.op = "walkStruct"
    /\ Len(ev.visits) >= 2
    /\ \E i \in 2..Len(ev.visits) :
          LET t == ev.types[1][ev.visits[i]]
          IN  /\ \E k \in 1..Len(t.embeds) :
                    \E j \in 1..i : ev.visits[j] = t.embeds[k]
              /\ \E k \in 1..Len(ev.members) :
                    /\ VisitIndex(ev.visits, ev.members[k].owner) < i
                    /\ ev.members[k].name \in Reportable(ev.types[1], ev.visits[i])
    /\ Len(ev.returns) >= 2
    /\ ~ev.returns[Len(ev.returns)]

---------------------------------------------------------------------------
(* C29: in a compile result, after any sequence of addDiagnostics calls,   *)
(* hasErrorSeverityDiagnostic is true exactly when a diagnostic stored for *)
(* some document has error severity; once true it never becomes false, and *)
(* an addition of warnings only or of diagnostics already stored does not  *)
(* change it.                                                              *)

HasStoredError(r) ==
    \E u \in DOMAIN r.diagnostics :
        \E k \in 1..Len(r.diagnostics[u]) :
            r.diagnostics[u][k].severity = SeverityError

C29_FlagStep ==
    /\ cr.hasError => cr'.hasError
    /\ ev'.op = "addDiagnostics" =>
          LET old == MapGet(cr.diagnostics, ev'.uri, <<>>)
          IN  (\/ \A k \in 1..Len(ev'.diags) : ev'.diags[k].severity = SeverityWarning
               \/ SeqRange(ev'.diags) \subseteq SeqRange(old))
                  => cr'.hasError = cr.hasError

C29_HasErrorSeverity ==
    [](cr.hasError <=> HasStoredError(cr)) /\ [][C29_FlagStep]_vars

\* A warning has just been added to a result that holds an error under the
\* other URI, and the flag is still set.
C29_Witness ==
    /\ ev.op = "addDiagnostics"
    /\ \A k \in 1..Len(ev.diags) : ev.diags[k].severity = SeverityWarning
    /\ \E k \in 1..Len(cr.diagnostics[ev.uri]) :
          cr.diagnostics[ev.uri][k] = ev.diags[1]
    /\ \E u \in DOMAIN cr.diagnostics \ {ev.uri} :
          \E k \in 1..Len(cr.diagnostics[u]) :
              cr.diagnostics[u][k].severity = SeverityError
    /\ \A k \in 1..Len(cr.diagnostics[ev.uri]) :
          cr.diagnostics[ev.uri][k].severity = SeverityWarning
    /\ cr.hasError

---------------------------------------------------------------------------
(* Text synchronisation with the didSave notifications that carry no text. *)

NextSave ==
    \/ NextSync
    \/ DidSave(toDocumentURI("main.spx"), FALSE, <<>>, MaxClock)

SaveSpec ==
    /\ Init
    /\ [][NextSave]_vars
    /\ \A i \in Slots : WF_vars(\E p \in PublishOutcomes : DiagStep(i, p.built, p.ok))

---------------------------------------------------------------------------
(* C30: a didOpen, didChange or didSave for a stored path whose version is *)
(* not greater than the stored one leaves the stored content as it is, but *)
(* still starts the diagnostics goroutine, which publishes the diagnostics *)
(* of that path; so once a didSave with text has stored the file under a   *)
(* wall-clock version, every later didOpen or didChange with a smaller     *)
(* client version is discarded; a didSave without text changes nothing and *)
(* publishes nothing.                                                      *)

SyncMethods ==
    {"textDocument/didOpen", "textDocument/didChange", "textDocument/didSave"}

\* The step of one of the three handlers that has reached didModifyFile.
IsSyncStep ==
    /\ ev'.thread = "dispatcher"
    /\ ev'.op \in SyncMethods
    /\ Len(ev'.changes) = 1

C30_StaleStep ==
    IsSyncStep =>
        LET c == ev'.changes[1]
            old == files[c.path]
        IN  (old # NoFile /\ c.version <= old.version) =>
                /\ files' = files
                /\ ev'.spawned \in Slots
                /\ workers[ev'.spawned].kind = "idle"
                /\ workers'[ev'.spawned].kind = "diag"
                /\ workers'[ev'.spawned].paths = <<c.path>>
                /\ workers'[ev'.spawned].pos = 0
                /\ workers'[ev'.spawned].id = ev'.id

C30_AfterSave ==
    (/\ IsSyncStep
     /\ ev'.op \in {"textDocument/didOpen", "textDocument/didChange"}
     /\ files[ev'.changes[1].path] # NoFile
     /\ files[ev'.changes[1].path].version > MaxClientVersion
     /\ ev'.changes[1].version <= MaxClientVersion) =>
        files' = files

C30_SaveWithoutText ==
    (/\ ev'.thread = "dispatcher"
     /\ ev'.op = "textDocument/didSave"
     /\ ev'.changes = <<>>
     /\ ev'.err = "nil") =>
        /\ files' = files
        /\ workers' = workers
        /\ ev'.spawned = 0
        /\ ev'.msgs = <<>>

\* The goroutine message id started for one path leaves its slot only by
\* handing the diagnostics of that path to publishDiagnostics.
C30_Publishes ==
    \A i \in Slots :
        (/\ workers[i].kind = "diag"
         /\ workers[i].handler \in SyncMethods
         /\ workers'[i].kind # "diag") =>
            /\ ev'.op = "publishDiagnostics"
            /\ ev'.id = workers[i].id
            /\ ev'.paths = workers[i].paths
            /\ ev'.index = Len(workers[i].paths)

\* The steps above, and no goroutine stays in its slot for ever.
C30_StaleVersions ==
    /\ [][C30_StaleStep /\ C30_AfterSave /\ C30_SaveWithoutText
            /\ C30_Publishes]_vars
    /\ \A i \in Slots : []<>(workers[i].kind # "diag")

\* A didOpen or didChange older than the file a didSave stored has just been
\* handled: the file is as the didSave left it and the goroutine is started.
C30_Witness ==
    /\ ev.thread = "dispatcher"
    /\ ev.op \in {"textDocument/didOpen", "textDocument/didChange"}
    /\ Len(ev.changes) = 1
    /\ files[ev.changes[1].path].version > MaxClientVersion
    /\ ev.changes[1].version < files[ev.changes[1].path].version
    /\ ev.changes[1].content # files[ev.changes[1].path].content
    /\ workers[ev.spawned].kind = "diag"
    /\ workers[ev.spawned].paths = <<ev.changes[1].path>>

====
